---- MODULE Spec2Model ----
(***************************************************************************)
(* A model of the ray_tracing renderer: the frame-buffer side of           *)
(* Renderer::draw (dirty flag, row workers, pixel accumulator, output      *)
(* transform) and the recursive integrator Renderer::ray_color over a      *)
(* scene of axis-aligned rectangles with Lambertian, Metal and             *)
(* DiffuseLight materials.                                                 *)
(*                                                                         *)
(* f32 values are modelled as exact rationals extended with NaN, +inf and  *)
(* -inf, with the IEEE rules for the special values (x/0, 0/0, inf-inf,    *)
(* 0*inf, comparisons with NaN).  Rounding of finite results is not        *)
(* modelled.                                                               *)
(***************************************************************************)
EXTENDS Integers, Sequences, FiniteSets, TLC

(***************************************************************************)
(* f32                                                                     *)
(***************************************************************************)
RECURSIVE GCD(_, _)
GCD(a, b) == IF b = 0 THEN a ELSE GCD(b, a % b)

Abs(i) == IF i < 0 THEN -i ELSE i

\* A finite value n/d in lowest terms with a positive denominator.
Fin(n, d) ==
    LET g == GCD(Abs(n), Abs(d))
        s == IF d < 0 THEN -1 ELSE 1
    IN  [k |-> "fin", n |-> s * (n \div g), d |-> s * (d \div g)]

NaN    == [k |-> "nan",  n |-> 0, d |-> 1]
PosInf == [k |-> "inf",  n |-> 0, d |-> 1]
NegInf == [k |-> "ninf", n |-> 0, d |-> 1]
F0     == Fin(0, 1)
F1     == Fin(1, 1)

is_nan(x)      == x.k = "nan"
is_infinite(x) == x.k \in {"inf", "ninf"}
IsFin(x)       == x.k = "fin"

\* -1, 0 or 1; NaN has no sign and is never asked for one.
Sgn(x) ==
    CASE x.k = "inf"  -> 1
      [] x.k = "ninf" -> -1
      [] OTHER        -> IF x.n > 0 THEN 1 ELSE IF x.n < 0 THEN -1 ELSE 0

Signed(s) == IF s > 0 THEN PosInf ELSE IF s < 0 THEN NegInf ELSE NaN

FNeg(x) ==
    CASE x.k = "nan"  -> NaN
      [] x.k = "inf"  -> NegInf
      [] x.k = "ninf" -> PosInf
      [] OTHER        -> Fin(-x.n, x.d)

FAdd(x, y) ==
    CASE is_nan(x) \/ is_nan(y)            -> NaN
      [] is_infinite(x) /\ is_infinite(y)  -> IF x.k = y.k THEN x ELSE NaN
      [] is_infinite(x)                    -> x
      [] is_infinite(y)                    -> y
      [] OTHER -> Fin(x.n * y.d + y.n * x.d, x.d * y.d)

FSub(x, y) == FAdd(x, FNeg(y))

FMul(x, y) ==
    CASE is_nan(x) \/ is_nan(y)            -> NaN
      [] is_infinite(x) \/ is_infinite(y)  -> Signed(Sgn(x) * Sgn(y))
      [] OTHER -> Fin(x.n * y.n, x.d * y.d)

\* x / y; a zero divisor is +0 (the model has no negative zero).
FDiv(x, y) ==
    CASE is_nan(x) \/ is_nan(y)            -> NaN
      [] is_infinite(x) /\ is_infinite(y)  -> NaN
      [] is_infinite(x) -> IF Sgn(y) < 0 THEN FNeg(x) ELSE x
      [] is_infinite(y) -> F0
      [] y.n = 0        -> Signed(Sgn(x))
      [] OTHER          -> Fin(x.n * y.d, x.d * y.n)

\* x < y as f32 compares: false as soon as one side is NaN.
FLt(x, y) ==
    CASE is_nan(x) \/ is_nan(y) -> FALSE
      [] x.k = "inf"            -> FALSE
      [] y.k = "ninf"           -> FALSE
      [] x.k = "ninf"           -> TRUE
      [] y.k = "inf"            -> TRUE
      [] OTHER                  -> x.n * y.d < y.n * x.d

FGt(x, y) == FLt(y, x)
FLe(x, y) == ~is_nan(x) /\ ~is_nan(y) /\ ~FLt(y, x)
FGe(x, y) == FLe(y, x)

\* f32::max and f32::min return the other operand when one is NaN.
FMax(x, y) == IF is_nan(x) THEN y ELSE IF is_nan(y) THEN x
              ELSE IF FLt(x, y) THEN y ELSE x
FMin(x, y) == IF is_nan(x) THEN y ELSE IF is_nan(y) THEN x
              ELSE IF FLt(y, x) THEN y ELSE x

FAbs(x) == IF is_nan(x) THEN NaN ELSE IF Sgn(x) < 0 THEN FNeg(x) ELSE x

(***************************************************************************)
(* Vector3 / Point3 / Color: triples of f32                                *)
(***************************************************************************)
V3(a, b, c)  == <<a, b, c>>
zeros        == <<F0, F0, F0>>
repeat(c)    == <<c, c, c>>
VAdd(a, b)   == [i \in 1..3 |-> FAdd(a[i], b[i])]
VSub(a, b)   == [i \in 1..3 |-> FSub(a[i], b[i])]
VNeg(a)      == [i \in 1..3 |-> FNeg(a[i])]
VScale(s, a) == [i \in 1..3 |-> FMul(s, a[i])]
VDivS(a, s)  == [i \in 1..3 |-> FDiv(a[i], s)]
component_mul(a, b) == [i \in 1..3 |-> FMul(a[i], b[i])]
dot(a, b)    == FAdd(FAdd(FMul(a[1], b[1]), FMul(a[2], b[2])), FMul(a[3], b[3]))
cross(a, b)  == <<FSub(FMul(a[2], b[3]), FMul(a[3], b[2])),
                  FSub(FMul(a[3], b[1]), FMul(a[1], b[3])),
                  FSub(FMul(a[1], b[2]), FMul(a[2], b[1]))>>
x_axis       == <<F1, F0, F0>>
y_axis       == <<F0, F1, F0>>

\* floor(sqrt(m)) by bisection: the largest r in lo..hi with r * r <= m.
RECURSIVE isqrt_in(_, _, _)
isqrt_in(m, lo, hi) ==
    IF lo = hi THEN lo
    ELSE LET mid == (lo + hi + 1) \div 2
         IN  IF mid * mid <= m THEN isqrt_in(m, mid, hi)
             ELSE isqrt_in(m, lo, mid - 1)
isqrt(m) == isqrt_in(m, 0, 1024)

\* f32::sqrt where the root is a rational: NaN below zero, and the root of
\* n/d when n and d are squares.
FSqrt(x) ==
    CASE is_nan(x) \/ x.k = "ninf" -> NaN
      [] x.k = "inf"               -> PosInf
      [] x.n < 0                   -> NaN
      [] isqrt(x.n) * isqrt(x.n) = x.n /\ isqrt(x.d) * isqrt(x.d) = x.d
                                   -> Fin(isqrt(x.n), isqrt(x.d))

norm_squared(a)  == dot(a, a)
new_normalize(a) == VDivS(a, FSqrt(norm_squared(a)))

\* std::f32::consts::PI, as the rational 22/7.
PI == Fin(22, 7)

(***************************************************************************)
(* Ray, HitRecord (ray.rs:7-81)                                            *)
(***************************************************************************)
Ray(origin, direction, time) ==
    [origin |-> origin, direction |-> direction, time |-> time]

at(ray, t) == VAdd(ray.origin, VScale(t, ray.direction))

NoMaterial == [kind |-> "none", color |-> zeros, fuzz |-> F0]

\* Option<HitRecord>: `some` is FALSE for None.
NoHit == [some |-> FALSE, point |-> zeros, normal |-> y_axis, t |-> F0,
          uv |-> <<F0, F0>>, front_face |-> FALSE, material |-> NoMaterial]

\* HitRecord::set_face_normal
set_face_normal_keeps_outward(rec, ray, outward_normal) ==
    [rec EXCEPT !.front_face = FLt(dot(ray.direction, outward_normal), F0),
                !.normal = outward_normal]

set_face_normal(rec, ray, outward_normal) ==
    LET front_face == FLt(dot(ray.direction, outward_normal), F0)
    IN  [rec EXCEPT !.front_face = front_face,
                    !.normal = IF front_face THEN outward_normal
                               ELSE VNeg(outward_normal)]

(***************************************************************************)
(* Textures and materials (texture.rs:11-25, material.rs)                  *)
(***************************************************************************)
\* SolidColor::value
texture_value(material, uv, p) == material.color

Lambertian(color)   == [kind |-> "Lambertian", color |-> color, fuzz |-> F0]
Metal(albedo, fuzz) == [kind |-> "Metal", color |-> albedo,
                        fuzz |-> FMin(fuzz, F1)]
DiffuseLight(color) == [kind |-> "DiffuseLight", color |-> color, fuzz |-> F0]

\* Material::emit: black by default, the texture value for DiffuseLight.
emit(material, uv, point) ==
    IF material.kind = "DiffuseLight" THEN texture_value(material, uv, point)
    ELSE zeros

\* Metal::reflect
reflect(v, n) == VSub(v, VScale(FMul(Fin(2, 1), dot(n, v)), n))

\* The variant of ScatterType a material's scatter record carries.
s_type_of(material) ==
    CASE material.kind = "Lambertian" -> "Diffuse"
      [] material.kind = "Metal"      -> "Specular"
      [] OTHER                        -> "None"

NoScatter == [some |-> FALSE, s_type |-> "None", attenuation |-> zeros,
              scattered |-> Ray(zeros, y_axis, F0), w |-> y_axis]

\* Metal::scatter, from scatter_dir = reflected + fuzz * in_sphere on.
metal_scatter(material, ray_in, rec, scatter_dir) ==
    IF FGt(dot(rec.normal, scatter_dir), F0)
    THEN [some |-> TRUE, s_type |-> s_type_of(material),
          attenuation |-> material.color,
          scattered |-> Ray(rec.point, new_normalize(scatter_dir),
                            ray_in.time),
          w |-> y_axis]
    ELSE NoScatter

\* Material::scatter.  in_sphere is the draw of rand_vec3_in_unit_sphere.
\* Diffuse carries the axis of its cosine PDF, Specular the scattered ray.
scatter(material, ray_in, rec, in_sphere) ==
    CASE material.kind = "Lambertian" ->
           [some |-> TRUE, s_type |-> s_type_of(material),
            attenuation |-> texture_value(material, rec.uv, rec.point),
            scattered |-> Ray(zeros, y_axis, F0), w |-> rec.normal]
      [] material.kind = "Metal" ->
           metal_scatter(material, ray_in, rec,
                         VAdd(reflect(ray_in.direction, rec.normal),
                              VScale(material.fuzz, in_sphere)))
      [] OTHER -> NoScatter

(***************************************************************************)
(* Primitives (geo.rs:126-196, ray.rs:83-155)                              *)
(***************************************************************************)
\* AlignedAxis::get_indexes, one-based.
get_indexes(axis) ==
    CASE axis = "XY" -> <<1, 2, 3>>
      [] axis = "XZ" -> <<1, 3, 2>>
      [] axis = "YZ" -> <<2, 3, 1>>

\* AxisAlignedRect::new
AxisAlignedRect(material, k, c0, c1, axis) ==
    LET axis_map == get_indexes(axis)
        eps == Fin(1, 10000)
    IN  [kind |-> "Rect", material |-> material, k |-> k, axis |-> axis,
         p0 |-> [i \in 1..3 |-> IF i = axis_map[1] THEN c0[1]
                                 ELSE IF i = axis_map[2] THEN c0[2]
                                 ELSE FSub(k, eps)],
         p1 |-> [i \in 1..3 |-> IF i = axis_map[1] THEN c1[1]
                                 ELSE IF i = axis_map[2] THEN c1[2]
                                 ELSE FAdd(k, eps)],
         objects |-> <<>>]

\* HittableList::new
HittableList(objects) ==
    [kind |-> "List", material |-> NoMaterial, k |-> F0, axis |-> "XY",
     p0 |-> zeros, p1 |-> zeros, objects |-> objects]

\* impl Hittable for AxisAlignedRect: hit, from the point xyz = ray.at(t) on.
rect_hit_at(self, ray, t, xyz) ==
    LET xi == get_indexes(self.axis)[1]
        yi == get_indexes(self.axis)[2]
        zi == get_indexes(self.axis)[3]
        outward_normal == [i \in 1..3 |-> IF i = zi THEN F1 ELSE F0]
    IN  IF \/ FLt(xyz[xi], self.p0[xi]) \/ FGt(xyz[xi], self.p1[xi])
           \/ FLt(xyz[yi], self.p0[yi]) \/ FGt(xyz[yi], self.p1[yi]) THEN NoHit
        ELSE [set_face_normal(NoHit, ray, outward_normal) EXCEPT
                !.some = TRUE,
                !.uv = <<FDiv(FSub(xyz[xi], self.p0[xi]),
                              FSub(self.p1[xi], self.p0[xi])),
                         FDiv(FSub(xyz[yi], self.p0[yi]),
                              FSub(self.p1[yi], self.p0[yi]))>>,
                !.material = self.material,
                !.point = xyz,
                !.t = t]

\* The same, from t = (k - origin[zi]) / direction[zi] on.
rect_hit_t(self, ray, t_min, t_max, t) ==
    IF FLt(t, t_min) \/ FGt(t, t_max) THEN NoHit
    ELSE rect_hit_at(self, ray, t, at(ray, t))

rect_hit(self, ray, t_min, t_max) ==
    rect_hit_t(self, ray, t_min, t_max,
               FDiv(FSub(self.k, ray.origin[get_indexes(self.axis)[3]]),
                    ray.direction[get_indexes(self.axis)[3]]))

\* impl Hittable for HittableList: hit, the loop over self.objects from
\* object i on, with the closest hit so far.
RECURSIVE hit(_, _, _, _), list_hit(_, _, _, _, _, _)
list_next(objects, i, ray, t_min, closest_so_far, hit_temp, new_hit) ==
    IF new_hit.some
    THEN list_hit(objects, i + 1, ray, t_min, new_hit.t, new_hit)
    ELSE list_hit(objects, i + 1, ray, t_min, closest_so_far, hit_temp)

list_hit(objects, i, ray, t_min, closest_so_far, hit_temp) ==
    IF i > Len(objects) THEN hit_temp
    ELSE list_next(objects, i, ray, t_min, closest_so_far, hit_temp,
                   hit(objects[i], ray, t_min, closest_so_far))

\* Sphere::new (new_with_label): a Sphere that does not move.
Sphere(center, radius, material) ==
    [kind |-> "Sphere", center0 |-> center, center1 |-> center,
     time0 |-> F0, time1 |-> F0, radius |-> radius, material |-> material,
     moving |-> FALSE]

\* Sphere::get_center
get_center(self, time) ==
    IF self.moving
    THEN VAdd(self.center0,
              VScale(FDiv(FSub(time, self.time0),
                          FSub(self.time1, self.time0)),
                     VSub(self.center1, self.center0)))
    ELSE self.center0

\* Sphere::get_sphere_uv: [phi / 2 PI, theta / PI] with theta = acos(-p.y)
\* and phi = atan2(-p.z, p.x) + PI, kept as the terms they are computed from.
get_sphere_uv(p) ==
    <<[k |-> "phi/2PI", atan2 |-> <<FNeg(p[3]), p[1]>>],
      [k |-> "theta/PI", acos |-> FNeg(p[2])]>>

\* impl Hittable for Sphere: hit, from the accepted root on.
sphere_hit_root(self, ray, root, point) ==
    [set_face_normal(NoHit, ray,
        new_normalize(VDivS(VSub(point, get_center(self, ray.time)),
                            self.radius)))
     EXCEPT !.some = TRUE,
            !.t = root,
            !.point = point,
            !.uv = get_sphere_uv(VDivS(VSub(point,
                                            get_center(self, ray.time)),
                                       self.radius)),
            !.material = self.material]

\* The same, from the two roots (-half_b -+ sqrtd) / a on.
sphere_hit_roots_far_first(self, ray, t_min, t_max, near, far) ==
    IF ~(FLt(far, t_min) \/ FGt(far, t_max))
    THEN sphere_hit_root(self, ray, far, at(ray, far))
    ELSE IF FLt(near, t_min) \/ FGt(near, t_max) THEN NoHit
    ELSE sphere_hit_root(self, ray, near, at(ray, near))

sphere_hit_roots(self, ray, t_min, t_max, near, far) ==
    IF ~(FLt(near, t_min) \/ FGt(near, t_max))
    THEN sphere_hit_root(self, ray, near, at(ray, near))
    ELSE IF FLt(far, t_min) \/ FGt(far, t_max) THEN NoHit
    ELSE sphere_hit_root(self, ray, far, at(ray, far))

\* The same, from the discriminant on.
sphere_hit_discriminant(self, ray, t_min, t_max, a, half_b, discriminant) ==
    IF FLt(discriminant, F0) THEN NoHit
    ELSE sphere_hit_roots(self, ray, t_min, t_max,
             FDiv(FSub(FNeg(half_b), FSqrt(discriminant)), a),
             FDiv(FAdd(FNeg(half_b), FSqrt(discriminant)), a))

\* The same, from oc = ray.origin - center on.
sphere_hit_oc(self, ray, t_min, t_max, oc, a, half_b) ==
    sphere_hit_discriminant(self, ray, t_min, t_max, a, half_b,
        FSub(FMul(half_b, half_b),
             FMul(a, FSub(norm_squared(oc),
                          FMul(self.radius, self.radius)))))

sphere_hit(self, ray, t_min, t_max) ==
    sphere_hit_oc(self, ray, t_min, t_max,
                  VSub(ray.origin, get_center(self, ray.time)),
                  norm_squared(ray.direction),
                  dot(VSub(ray.origin, get_center(self, ray.time)),
                      ray.direction))

\* Cuboid::new: two rectangles per axis, at cuboid_min and cuboid_max, in
\* the order of AlignedAxis::iter().
Cuboid(cuboid_min, cuboid_max, material) ==
    LET axes == <<"XY", "XY", "XZ", "XZ", "YZ", "YZ">>
        side(n) ==
            AxisAlignedRect(material,
                IF n % 2 = 1 THEN cuboid_min[get_indexes(axes[n])[3]]
                ELSE cuboid_max[get_indexes(axes[n])[3]],
                <<cuboid_min[get_indexes(axes[n])[1]],
                  cuboid_min[get_indexes(axes[n])[2]]>>,
                <<cuboid_max[get_indexes(axes[n])[1]],
                  cuboid_max[get_indexes(axes[n])[2]]>>,
                axes[n])
    IN  [kind |-> "Cuboid", cuboid_min |-> cuboid_min,
         cuboid_max |-> cuboid_max,
         sides |-> HittableList([n \in 1..6 |-> side(n)])]

\* Translation::new
Translation(obj, offset) ==
    [kind |-> "Translation", obj |-> obj, offset |-> offset]

\* impl Hittable for Translation: hit, from the inner hit on.
translation_hit_record_unshifted(self, hit_record) ==
    IF hit_record.some THEN hit_record ELSE NoHit

translation_hit_record(self, hit_record) ==
    IF hit_record.some
    THEN [hit_record EXCEPT !.point = VAdd(hit_record.point, self.offset)]
    ELSE NoHit

\* let moved_ray = Ray::new(ray.origin - self.offset, ray.direction, ray.time)
moved_ray(self, ray) ==
    Ray(VSub(ray.origin, self.offset), ray.direction, ray.time)

translation_hit(self, ray, t_min, t_max) ==
    translation_hit_record(self,
        hit(self.obj, moved_ray(self, ray), t_min, t_max))

\* Rotation3::from_axis_angle(y_axis, degree_to_radian(degree)) for the
\* quarter turns, whose cosine and sine are taken exact, and the 3-4-5
\* angle; .inverse() is the rotation by the opposite angle.
from_axis_angle(degree) ==
    CASE degree = 0   -> [cos |-> F1, sin |-> F0]
      [] degree = 90  -> [cos |-> F0, sin |-> F1]
      [] degree = 180 -> [cos |-> FNeg(F1), sin |-> F0]
      [] degree = 270 -> [cos |-> F0, sin |-> FNeg(F1)]
      [] degree = 53  -> [cos |-> Fin(3, 5), sin |-> Fin(4, 5)]

inverse(rotation) == [cos |-> rotation.cos, sin |-> FNeg(rotation.sin)]

\* Rotation3 * Vector3 for a rotation about y.
rotate(rotation, v) ==
    <<FAdd(FMul(rotation.cos, v[1]), FMul(rotation.sin, v[3])),
      v[2],
      FAdd(FMul(FNeg(rotation.sin), v[1]), FMul(rotation.cos, v[3]))>>

\* impl Hittable for RotationY: hit, from the inner hit on.
rotation_hit_record(self, hit_record) ==
    IF hit_record.some
    THEN [hit_record EXCEPT
            !.point = rotate(self.rotation, hit_record.point),
            !.normal = rotate(self.rotation, hit_record.normal)]
    ELSE NoHit

\* let rot_ray = Ray::new(origin, direction, ray.time)
rot_ray(self, ray) ==
    Ray(rotate(self.inv_rot, ray.origin),
        rotate(self.inv_rot, ray.direction), ray.time)

rotation_hit(self, ray, t_min, t_max) ==
    rotation_hit_record(self,
        hit(self.obj, rot_ray(self, ray), t_min, t_max))

\* Option<AxisAlignedBoundingBox>: `some` is FALSE for None.
AxisAlignedBoundingBox(minimum, maximum) ==
    [some |-> TRUE, minimum |-> minimum, maximum |-> maximum]

NoBox == [some |-> FALSE, minimum |-> zeros, maximum |-> zeros]

\* AxisAlignedBoundingBox::hit, the test of one axis: the interval is
\* clipped by this axis's slab alone.
slab_hit(a, b, min, max, t_min, t_max) ==
    LET inv_b == FDiv(F1, b)
        t0 == FMul(FSub(min, a), inv_b)
        t1 == FMul(FSub(max, a), inv_b)
    IN  IF FLt(inv_b, F0)
        THEN FGt(FMin(t_max, t0), FMax(t_min, t1))
        ELSE FGt(FMin(t_max, t1), FMax(t_min, t0))

aabb_hit(self, ray, t_min, t_max) ==
    \A i \in 1..3 :
        slab_hit(ray.origin[i], ray.direction[i], self.minimum[i],
                 self.maximum[i], t_min, t_max)

\* Option::or
or(a, b) == IF a.some THEN a ELSE b

\* impl Hittable for BVHNode: hit, from hit_left on.
bvh_hit_left(self, ray, t_min, t_max, hit_left) ==
    IF hit_left.some
    THEN or(hit(self.right, ray, t_min, hit_left.t), hit_left)
    ELSE hit(self.right, ray, t_min, t_max)

bvh_hit(self, ray, t_min, t_max) ==
    IF ~aabb_hit(self.bbox, ray, t_min, t_max) THEN NoHit
    ELSE bvh_hit_left(self, ray, t_min, t_max,
                      hit(self.left, ray, t_min, t_max))

\* Hittable::hit, dispatched on the primitive.
hit(self, ray, t_min, t_max) ==
    CASE self.kind = "Rect"        -> rect_hit(self, ray, t_min, t_max)
      [] self.kind = "Sphere"      -> sphere_hit(self, ray, t_min, t_max)
      [] self.kind = "Cuboid"      -> hit(self.sides, ray, t_min, t_max)
      [] self.kind = "Translation" -> translation_hit(self, ray, t_min, t_max)
      [] self.kind = "RotationY"   -> rotation_hit(self, ray, t_min, t_max)
      [] self.kind = "BVHNode"     -> bvh_hit(self, ray, t_min, t_max)
      [] self.kind = "List"        ->
           list_hit(self.objects, 1, ray, t_min, t_max, NoHit)

\* AxisAlignedBoundingBox::surrounding_box
surrounding_box_needs_both(bbox0, bbox1) ==
    CASE bbox0.some /\ bbox1.some ->
           AxisAlignedBoundingBox(
               [i \in 1..3 |-> FMin(bbox0.minimum[i], bbox1.minimum[i])],
               [i \in 1..3 |-> FMax(bbox0.maximum[i], bbox1.maximum[i])])
      [] OTHER       -> NoBox

surrounding_box(bbox0, bbox1) ==
    CASE bbox0.some /\ bbox1.some ->
           AxisAlignedBoundingBox(
               [i \in 1..3 |-> FMin(bbox0.minimum[i], bbox1.minimum[i])],
               [i \in 1..3 |-> FMax(bbox0.maximum[i], bbox1.maximum[i])])
      [] bbox0.some  -> bbox0
      [] bbox1.some  -> bbox1
      [] OTHER       -> NoBox

\* Hittable::bounding_box, dispatched on the primitive; for a list the fold
\* of surrounding_box over the objects from object i on.
RECURSIVE bounding_box(_, _, _), list_bounding_box(_, _, _, _, _)
list_bounding_box(objects, i, time0, time1, acc) ==
    IF i > Len(objects) THEN acc
    ELSE list_bounding_box(objects, i + 1, time0, time1,
             surrounding_box(acc, bounding_box(objects[i], time0, time1)))

translation_bounding_box(self, bbox) ==
    IF bbox.some
    THEN AxisAlignedBoundingBox(VAdd(bbox.minimum, self.offset),
                                VAdd(bbox.maximum, self.offset))
    ELSE NoBox

sphere_bounding_box(self, time0, time1) ==
    IF self.moving
    THEN surrounding_box(
             AxisAlignedBoundingBox(
                 VSub(get_center(self, time0), repeat(self.radius)),
                 VAdd(get_center(self, time0), repeat(self.radius))),
             AxisAlignedBoundingBox(
                 VSub(get_center(self, time1), repeat(self.radius)),
                 VAdd(get_center(self, time1), repeat(self.radius))))
    ELSE AxisAlignedBoundingBox(VSub(self.center0, repeat(self.radius)),
                                VAdd(self.center0, repeat(self.radius)))

bounding_box(self, time0, time1) ==
    CASE self.kind = "Rect"   -> AxisAlignedBoundingBox(self.p0, self.p1)
      [] self.kind = "Sphere" -> sphere_bounding_box(self, time0, time1)
      [] self.kind = "Cuboid" ->
           AxisAlignedBoundingBox(self.cuboid_min, self.cuboid_max)
      [] self.kind = "Translation" ->
           translation_bounding_box(self,
                                    bounding_box(self.obj, time0, time1))
      [] self.kind = "RotationY" -> self.bbox
      [] self.kind = "BVHNode"   -> self.bbox
      [] self.kind = "List"      ->
           list_bounding_box(self.objects, 1, time0, time1, NoBox)

\* RotationY::new, the box: the fold of min and max over the rotated
\* corners n..8 of the inner box.
RECURSIVE rotated_box(_, _, _, _)
rotated_box(rotation, bbox, n, acc) ==
    IF n > 8 THEN acc
    ELSE LET vec == <<(n - 1) \div 4, ((n - 1) \div 2) % 2, (n - 1) % 2>>
             xyz == rotate(rotation,
                        [i \in 1..3 |->
                            FAdd(FMul(Fin(vec[i], 1), bbox.maximum[i]),
                                 FMul(Fin(1 - vec[i], 1), bbox.minimum[i]))])
         IN  rotated_box(rotation, bbox, n + 1,
                 AxisAlignedBoundingBox(
                     [i \in 1..3 |-> FMin(acc.minimum[i], xyz[i])],
                     [i \in 1..3 |-> FMax(acc.maximum[i], xyz[i])]))

\* RotationY::new
RotationY(obj, degree) ==
    [kind |-> "RotationY", obj |-> obj,
     rotation |-> from_axis_angle(degree),
     inv_rot |-> inverse(from_axis_angle(degree)),
     bbox |-> IF bounding_box(obj, F0, F1).some
              THEN rotated_box(from_axis_angle(degree),
                               bounding_box(obj, F0, F1), 1,
                               AxisAlignedBoundingBox(repeat(PosInf),
                                                      repeat(NegInf)))
              ELSE NoBox]

\* Isotropic::from_color
Isotropic(color) == [kind |-> "Isotropic", color |-> color, fuzz |-> F0]

\* ConstantMedium::new_c
ConstantMedium(boundary, density, color) ==
    [kind |-> "ConstantMedium", boundary |-> boundary,
     neg_inv_density |-> FDiv(FNeg(F1), density),
     phase_function |-> Isotropic(color)]

\* impl Hittable for ConstantMedium: hit, from the clamped hit_record1.t and
\* hit_record2.t on; ln_rand is the draw of get_rand().ln().
medium_hit_clamped(self, ray, ln_rand, t1, t2) ==
    IF FGe(t1, t2) THEN NoHit
    ELSE IF FGt(FMul(self.neg_inv_density, ln_rand), FSub(t2, t1)) THEN NoHit
    ELSE [NoHit EXCEPT
            !.some = TRUE,
            !.t = FAdd(t1, FMul(self.neg_inv_density, ln_rand)),
            !.point = at(ray, FAdd(t1, FMul(self.neg_inv_density, ln_rand))),
            !.material = self.phase_function]

\* The same, from the second boundary hit on.
medium_hit_record2(self, ray, t_min, t_max, ln_rand, hit_record1, hit_record2) ==
    IF ~hit_record2.some THEN NoHit
    ELSE medium_hit_clamped(self, ray, ln_rand,
                            FMax(FMax(t_min, hit_record1.t), F0),
                            FMin(t_max, hit_record2.t))

\* The same, from the first boundary hit on.
medium_hit_record1(self, ray, t_min, t_max, ln_rand, hit_record1) ==
    IF ~hit_record1.some THEN NoHit
    ELSE medium_hit_record2(self, ray, t_min, t_max, ln_rand, hit_record1,
             hit(self.boundary, ray,
                 FAdd(hit_record1.t, Fin(1, 10000)), PosInf))

medium_hit(self, ray, t_min, t_max, ln_rand) ==
    medium_hit_record1(self, ray, t_min, t_max, ln_rand,
                       hit(self.boundary, ray, NegInf, PosInf))

\* `as usize` of a non-negative finite value.
as_usize(x) == x.n \div x.d

\* get_rand_usize_range(min, max) for the draw `rand` of get_rand()
get_rand_usize_range(min, max, rand) ==
    as_usize(FAdd(Fin(min, 1), FMul(Fin(max - min, 1), rand)))

\* Hittable::pdf_val: 0 by default, the mean over the objects for a list
\* (0/0 for an empty list).
RECURSIVE pdf_val_sum(_, _)
pdf_val_sum(objects, i) ==
    IF i > Len(objects) THEN F0 ELSE FAdd(F0, pdf_val_sum(objects, i + 1))

pdf_val_of(self, origin, v) ==
    IF self.kind = "List"
    THEN FDiv(pdf_val_sum(self.objects, 1), Fin(Len(self.objects), 1))
    ELSE F0

\* Hittable::random: the x axis by default; a list indexes its objects by
\* get_rand_usize_range(0, len), which panics out of bounds.
random_default == x_axis
random(self, origin, rand) ==
    IF self.kind = "List"
    THEN IF get_rand_usize_range(0, Len(self.objects), rand)
              < Len(self.objects)
         THEN [panic |-> FALSE, direction |-> random_default]
         ELSE [panic |-> TRUE, direction |-> zeros]
    ELSE [panic |-> FALSE, direction |-> random_default]

(***************************************************************************)
(* ONB and PDFs (onb.rs:34-49, rand_gen.rs:80-90, pdf.rs)                  *)
(***************************************************************************)
\* cos(2*pi*r1) and sin(2*pi*r1) for the quarter turns the model draws.
cos_2pi(r1) == CASE r1 = F0 -> F1 [] r1 = Fin(1, 4) -> F0
                 [] r1 = Fin(1, 2) -> Fin(-1, 1) [] r1 = Fin(3, 4) -> F0
sin_2pi(r1) == CASE r1 = F0 -> F0 [] r1 = Fin(1, 4) -> F1
                 [] r1 = Fin(1, 2) -> F0 [] r1 = Fin(3, 4) -> Fin(-1, 1)

\* random_cosine_direction for the draws r1 and g of get_rand().
cosine_direction_of(r1, r2) ==
    <<FMul(cos_2pi(r1), FSqrt(r2)), FMul(sin_2pi(r1), FSqrt(r2)),
      FSqrt(FSub(F1, r2))>>
random_cosine_direction(r1, g) ==
    cosine_direction_of(r1, FAdd(F0, FMul(FSub(Fin(9, 10), F0), g)))

\* ONB::build_from_w: the columns <<u, v, w>> of the rotation.
basis_of(w, v) == <<cross(w, v), v, w>>
build_from_w(w) ==
    basis_of(w, cross(w, IF FGt(FAbs(dot(w, x_axis)), Fin(9, 10))
                         THEN y_axis ELSE x_axis))

\* ONB::local_dir
local_dir(uvw, coords) ==
    VAdd(VAdd(VScale(coords[1], uvw[1]), VScale(coords[2], uvw[2])),
         VScale(coords[3], uvw[3]))

\* CosinePDF::value and generate, for the PDF built by CosinePDF::new(w)
cosine_value_of(cosine) ==
    IF FLe(cosine, F0) THEN F0 ELSE FMul(Fin(2, 1), cosine)
cosine_value(w, direction) ==
    cosine_value_of(dot(direction, build_from_w(w)[3]))

cosine_generate(w, r1, g) ==
    local_dir(build_from_w(w), random_cosine_direction(r1, g))

\* MixPDF::value
mix_value(p0, p1) == FAdd(FMul(Fin(1, 2), p0), FMul(Fin(1, 2), p1))

(***************************************************************************)
(* State                                                                   *)
(***************************************************************************)
VARIABLES
    \* Renderer (renderer.rs:24-38) and the caller's frame buffer
    width, height, multisample, max_depth, background, dirty, frame,
    \* Renderer::draw in progress: where the call is, the next pixel of each
    \* row chunk, and bookkeeping of the current call (writes per byte, the
    \* chunks that wrote each byte, rays traced, the last cal_norm_coords call)
    pc, rowx, writes, writers, traced, lastcall, draws, returned,
    \* One run of the per-pixel closure of draw (renderer.rs:100-116): the
    \* radiances ray_color returned so far, what the closure made of them, the
    \* average and the bytes
    px_pc, px_n, px_samples, px_addends, px_avg, px_out,
    \* One call of Renderer::ray_color (renderer.rs:197-237) from draw: the
    \* scene, the activation that runs (its ray and depth), the suspended
    \* activations that wait for their recursive call, the value being
    \* returned, what the last step saw, and the activations made so far
    scene, tr_pc, tr_ray, tr_depth, tr_stack, tr_value, tr_obs, tr_calls,
    \* One call of Hittable::hit and bounding_box on a primitive (geo.rs):
    \* where the call is, the primitive, the ray, the interval, the draw of
    \* get_rand().ln() a ConstantMedium makes, and what the calls returned
    g_pc, g_self, g_ray, g_t_min, g_t_max, g_ln, g_rec, g_box,
    \* One call of BVHNode::new (aabb.rs:57-82): where it is, the list it
    \* was given, its nested activations, and the tree it returned
    bvh_pc, bvh_list, bvh_stack, bvh_ret,
    \* Scene construction: the asset file on disk, the scene name with the
    \* scene and camera selected for it, the ImageTexture made from the file,
    \* one lookup of its value, and the material Metal::new returned
    b_file, b_name, b_scene, b_camera, b_texture, b_uv, b_value, b_metal,
    \* One call of Perlin::new and of Perlin::turb (perlin.rs): where the
    \* pair is, the outcome of the draws of new, the point, the depth, the
    \* accumulator of the fold, the calls of noise the fold made, and the
    \* value returned
    n_pc, n_seed, n_p, n_depth, n_fold, n_obs, n_turb,
    \* One CosinePDF (pdf.rs:15-32): where it is, the w it was made for, the
    \* columns of its ONB, the direction random_cosine_direction drew and the
    \* direction generate returned; and one call of Camera::new: the
    \* direction it was given and the camera it returned
    o_pc, o_w, o_uvw, o_coords, o_dir, c_direction, c_camera,
    \* One call of surrounding_box, of HittableList::bounding_box or of
    \* AxisAlignedBoundingBox::hit: which it was, the boxes, the results of
    \* surrounding_box, the objects of the list, the ray and the interval,
    \* and what bounding_box or hit returned
    x_pc, x_boxes, x_sum, x_list, x_ray, x_t_min, x_t_max, x_ret,
    \* One path of rays: the primary ray, the ray ray_color is called with, the
    \* ray the innermost wrapped object is tested with, and the scatterings so far
    p_pc, p_primary, p_ray, p_inner, p_len, p_via,
    \* The windowed event loop: where it is, the Gui, the Renderer, what the last
    \* updated() returned, the fields at that call, the last draw, and how the
    \* Gui last changed
    l_pc, l_gui, l_renderer, l_ret, l_last, l_drawn, l_changed

traceVars == <<scene, tr_pc, tr_ray, tr_depth, tr_stack, tr_value, tr_obs,
               tr_calls>>
geoVars == <<g_pc, g_self, g_ray, g_t_min, g_t_max, g_ln, g_rec, g_box>>
bvhVars == <<bvh_pc, bvh_list, bvh_stack, bvh_ret>>
buildVars == <<b_file, b_name, b_scene, b_camera, b_texture, b_uv, b_value,
               b_metal>>
noiseVars == <<n_pc, n_seed, n_p, n_depth, n_fold, n_obs, n_turb>>
basisVars == <<o_pc, o_w, o_uvw, o_coords, o_dir, c_direction, c_camera>>
boxVars == <<x_pc, x_boxes, x_sum, x_list, x_ray, x_t_min, x_t_max, x_ret>>
pathVars == <<p_pc, p_primary, p_ray, p_inner, p_len, p_via>>
loopVars == <<l_pc, l_gui, l_renderer, l_ret, l_last, l_drawn, l_changed>>
pixelVars == <<px_pc, px_n, px_samples, px_addends, px_avg, px_out>>

drawVars == <<width, height, multisample, max_depth, background, dirty, frame,
              pc, rowx, writes, writers, traced, lastcall, draws, returned>>

(***************************************************************************)
(* Bounds                                                                  *)
(***************************************************************************)
MaxPixels  == 4      \* width * height <= MaxPixels
MaxSamples == 2      \* multisample in 1..MaxSamples
MaxDraws   == 2      \* calls of draw in one behaviour
MaxDepth   == 2      \* max_depth in 0..MaxDepth

(***************************************************************************)
(* Pixel accumulator and output transform (renderer.rs:100-116, 134-137)   *)
(***************************************************************************)

\* floor(k * n / d) without forming k * n.
MulDivFloor(k, n, d) == (k \div d) * n + ((k % d) * n) \div d

\* (num.max(0.).min(0.999).sqrt() * 256.) as u8.  The clamped value c is
\* finite and lies in [0, 0.999], so floor(256 * sqrt(c)) is
\* floor(sqrt(floor(65536 * c))); `as u8` truncates toward zero.
float_to_rgb_rounds(num) ==
    LET c == FMin(FMax(num, F0), Fin(999, 1000))
    IN  (isqrt(MulDivFloor(4 * 65536, c.n, c.d)) + 1) \div 2
float_to_rgb(num) ==
    LET c == FMin(FMax(num, F0), Fin(999, 1000))
    IN  isqrt(MulDivFloor(65536, c.n, c.d))

\* The closure of renderer.rs:107 on one component.
sanitize_nan_only(c) == IF is_nan(c) THEN F0 ELSE c
sanitize(c) == IF is_nan(c) THEN F0 ELSE IF is_infinite(c) THEN F1 ELSE c

sanitized(color) == [i \in 1..3 |-> sanitize(color[i])]

RECURSIVE fold(_, _)
fold(acc, colors) ==
    IF colors = <<>> THEN acc
    ELSE fold(VAdd(acc, Head(colors)), Tail(colors))

\* The addends of the fold: the sanitised per-sample radiances.
addends(samples) == [i \in 1..Len(samples) |-> sanitized(samples[i])]

\* rgba_float of renderer.rs:100-110 for the per-sample radiances `samples`
\* (multisample = Len(samples); 0 samples give 0/0).
rgba_float(samples) ==
    VDivS(fold(zeros, addends(samples)), Fin(Len(samples), 1))

\* The four bytes copied into the pixel (renderer.rs:111-116).
alpha == 255
pixel_bytes(samples) ==
    LET c == rgba_float(samples)
    IN  <<float_to_rgb(c[1]), float_to_rgb(c[2]), float_to_rgb(c[3]), alpha>>

(***************************************************************************)
(* Renderer::draw (renderer.rs:56-123)                                     *)
(***************************************************************************)
\* renderer.rs:57-59
draw_returns_early_always_renders == FALSE
draw_returns_early == ~dirty

\* renderer.rs:63-65
pixel_count(len) == len \div 4
assert_pixel_count(len) == pixel_count(len) = width * height

\* renderer.rs:67
row_len_one_pixel_more == 4 * (width + 1)
row_len == 4 * width

\* chunks_exact_mut(row_len): the whole chunks only, the remainder is left out.
nchunks(len) == len \div row_len
chunk_start(c) == c * row_len
\* row.chunks_exact_mut(4)
pixels_in_row == row_len \div 4

\* iter.rev().enumerate(): the index y handed to buffer chunk c of n.
rev_enumerate_without_rev(c, n) == c
rev_enumerate(c, n) == n - 1 - c

\* get_rand() (rand_gen.rs:7-17) is uniform over [0,1); these are the
\* values the model draws.
get_rand == {F0, Fin(1, 2)}

\* cal_norm_coords (renderer.rs:173-184).
offsets == IF multisample # 1 THEN get_rand \X get_rand ELSE {<<F0, F0>>}
cal_norm_coords(x, y, x_offset, y_offset) ==
    << FDiv(FAdd(Fin(x, 1), x_offset), Fin(width - 1, 1)),
       FDiv(FAdd(Fin(y, 1), y_offset), Fin(height - 1, 1)) >>

\* In this specification the scene is one built by Scene::new from an empty
\* world and no lights: HittableList::hit finds nothing (ray.rs:123-133), so
\* ray_color is the depth test and the background (renderer.rs:198-200,
\* 233-235).
Backgrounds == { <<Fin(1, 4), Fin(1, 2), F1>>, <<NaN, PosInf, NegInf>> }
\* max_depth and background of a behaviour.
Settings == {s \in (0..1) \X Backgrounds : s[1] = 0 => s[2][1] = Fin(1, 4)}
ray_color_miss(depth) == IF depth = 0 THEN zeros ELSE background

NoCall == [r |-> -1, x |-> -1, y |-> -1, xo |-> F0, yo |-> F0, uv |-> <<F0, F0>>]

Dims == {wh \in (1..MaxPixels) \X (1..MaxPixels) : wh[1] * wh[2] <= MaxPixels}
\* Buffer lengths the caller may pass, relative to 4*W*H.
Lens(w, h) == {4 * w * h + e : e \in {-4, 0, 3}}

DrawInit ==
    /\ \E wh \in Dims :
         /\ width = wh[1]
         /\ height = wh[2]
         /\ \E len \in Lens(wh[1], wh[2]) : frame = [i \in 1..len |-> 0]
    /\ multisample \in 1..MaxSamples
    /\ \E s \in Settings : max_depth = s[1] /\ background = s[2]
    /\ dirty = TRUE
    /\ pc = "idle"
    /\ rowx = <<>>
    /\ writes = [i \in 1..Len(frame) |-> 0]
    /\ writers = [i \in 1..Len(frame) |-> {}]
    /\ traced = 0
    /\ lastcall = NoCall
    /\ draws = 0
    /\ returned = "none"

\* draw called with dirty false: returns at once.
DrawSkip ==
    /\ pc = "idle"
    /\ draws < MaxDraws
    /\ draw_returns_early
    /\ draws' = draws + 1
    /\ returned' = "skipped"
    /\ UNCHANGED <<width, height, multisample, max_depth, background, dirty,
                   frame, pc, rowx,
                   writes, writers, traced, lastcall>>

\* draw called with dirty true, up to the start of the row iteration.
DrawBegin ==
    /\ pc = "idle"
    /\ draws < MaxDraws
    /\ ~draw_returns_early
    /\ dirty' = FALSE
    /\ draws' = draws + 1
    /\ writes' = [i \in 1..Len(frame) |-> 0]
    /\ writers' = [i \in 1..Len(frame) |-> {}]
    /\ traced' = 0
    /\ lastcall' = NoCall
    /\ IF assert_pixel_count(Len(frame))
       THEN /\ pc' = "drawing"
            /\ rowx' = [c \in 0..nchunks(Len(frame)) - 1 |-> 0]
            /\ returned' = "none"
       ELSE /\ pc' = "panicked"
            /\ rowx' = <<>>
            /\ returned' = "panicked"
    /\ UNCHANGED <<width, height, multisample, max_depth, background, frame>>

\* The worker of buffer chunk c renders its next pixel: multisample samples,
\* each with its own offsets and radiance, then the four bytes are copied in.
RenderPixel(c) ==
    /\ pc = "drawing"
    /\ rowx[c] < pixels_in_row
    /\ LET x == rowx[c]
           y == rev_enumerate(c, nchunks(Len(frame)))
           off == chunk_start(c) + 4 * x
       \* The offsets of a sample reach the state only through the ray, which
       \* ray_color_miss does not read: those of the last sample are recorded.
       IN  \E last \in offsets :
             LET rads == [i \in 1..multisample |-> ray_color_miss(max_depth)]
                 px == pixel_bytes(rads)
             IN  /\ frame' = [i \in 1..Len(frame) |->
                                IF i \in off + 1..off + 4 THEN px[i - off]
                                ELSE frame[i]]
                 /\ writes' = [i \in 1..Len(frame) |->
                                IF i \in off + 1..off + 4 THEN writes[i] + 1
                                ELSE writes[i]]
                 /\ writers' = [i \in 1..Len(frame) |->
                                IF i \in off + 1..off + 4 THEN writers[i] \cup {c}
                                ELSE writers[i]]
                 /\ lastcall' = [r |-> c, x |-> x, y |-> y,
                                 xo |-> last[1], yo |-> last[2],
                                 uv |-> cal_norm_coords(x, y, last[1], last[2])]
    /\ rowx' = [rowx EXCEPT ![c] = @ + 1]
    /\ traced' = traced + multisample
    /\ UNCHANGED <<width, height, multisample, max_depth, background, dirty,
                   pc, draws, returned>>

\* Every row is done: the workers are joined and draw returns.
DrawEnd ==
    /\ pc = "drawing"
    /\ \A c \in DOMAIN rowx : rowx[c] = pixels_in_row
    /\ pc' = "idle"
    /\ returned' = "rendered"
    /\ UNCHANGED <<width, height, multisample, max_depth, background, dirty,
                   frame, rowx,
                   writes, writers, traced, lastcall, draws>>

\* The owner writes the public dirty field between draws (lib.rs:149).
SetDirty ==
    /\ pc = "idle"
    /\ draws > 0
    /\ dirty' = ~dirty
    /\ UNCHANGED <<width, height, multisample, max_depth, background, frame,
                   pc, rowx,
                   writes, writers, traced, lastcall, draws, returned>>

(***************************************************************************)
(* The per-pixel closure on its own, for any radiances                     *)
(***************************************************************************)
\* Components a radiance may have: the special values, a negative value,
\* and finite values below, at and above the clamp.
Components == {NaN, PosInf, NegInf, Fin(-1, 2), F0, Fin(1, 10000),
               Fin(1, 4), Fin(999, 1000), Fin(3, 1)}
PixelRadiances == {c \in Components \X Components \X Components :
                      c[2] = Fin(1, 4) /\ c[3] \in {F0, PosInf}}

PixelIdle ==
    /\ px_pc = "idle"
    /\ px_n = 0
    /\ px_samples = <<>>
    /\ px_addends = <<>>
    /\ px_avg = zeros
    /\ px_out = <<>>

PixelInit ==
    /\ px_pc = "sampling"
    /\ px_n \in 1..MaxSamples
    /\ px_samples = <<>>
    /\ px_addends = <<>>
    /\ px_avg = zeros
    /\ px_out = <<>>

\* One pass of the two maps of renderer.rs:101-108: ray_color returns a
\* radiance and the second closure sanitises it.
TakeSample ==
    /\ px_pc = "sampling"
    /\ Len(px_samples) < px_n
    /\ \E rad \in PixelRadiances :
          /\ px_samples' = Append(px_samples, rad)
          /\ px_addends' = Append(px_addends, sanitized(rad))
    /\ UNCHANGED <<px_pc, px_n, px_avg, px_out>>

\* The fold, the division and the output transform (renderer.rs:109-116).
FinishPixel ==
    /\ px_pc = "sampling"
    /\ Len(px_samples) = px_n
    /\ px_pc' = "done"
    /\ px_avg' = rgba_float(px_samples)
    /\ px_out' = pixel_bytes(px_samples)
    /\ UNCHANGED <<px_n, px_samples, px_addends>>

(***************************************************************************)
(* Scene and Renderer::ray_color (scene.rs:284-295, renderer.rs:197-237)   *)
(***************************************************************************)
\* Scene::new: the list of lights is also pushed to the world.
Scene_new(lights, world, colour) ==
    LET lights_list == HittableList(lights)
    IN  [lights |-> lights_list,
         world |-> HittableList(Append(world, lights_list)),
         background |-> colour]

Sky    == <<Fin(7, 10), Fin(4, 5), F1>>
floor  == AxisAlignedRect(Lambertian(repeat(Fin(1, 2))), F0,
                          <<Fin(-4, 1), Fin(-4, 1)>>, <<Fin(4, 1), Fin(4, 1)>>,
                          "XZ")
lamp   == AxisAlignedRect(DiffuseLight(repeat(Fin(4, 1))), Fin(4, 1),
                          <<Fin(-2, 1), Fin(-2, 1)>>, <<Fin(2, 1), Fin(2, 1)>>,
                          "XZ")
mirror == AxisAlignedRect(Metal(<<Fin(4, 5), Fin(3, 5), Fin(1, 5)>>, F0),
                          Fin(3, 1),
                          <<F0, Fin(-4, 1)>>, <<Fin(4, 1), Fin(4, 1)>>, "YZ")

\* The scenes of the model: empty; a lit room whose lamp is not listed as a
\* light; the same with the lamp listed; a mirror under a sky, with and
\* without a listed lamp.
Scenes ==
    { Scene_new(<<>>, <<>>, Sky),
      Scene_new(<<>>, <<floor, lamp>>, zeros),
      Scene_new(<<lamp>>, <<floor>>, zeros),
      Scene_new(<<>>, <<floor, mirror>>, Sky),
      Scene_new(<<lamp>>, <<floor, mirror>>, Sky) }

\* The primary rays draw hands to ray_color.
PrimaryRays ==
    { Ray(<<F0, Fin(2, 1), F0>>, <<F0, Fin(-1, 1), F0>>, Fin(1, 2)),
      Ray(<<F0, Fin(2, 1), F0>>, <<F0, F1, F0>>, Fin(1, 2)),
      Ray(<<F0, Fin(6, 1), F0>>, <<F0, Fin(-1, 1), F0>>, Fin(1, 2)),
      Ray(<<F0, Fin(2, 1), F0>>, <<F1, F0, F0>>, Fin(1, 2)),
      Ray(<<F0, F1, F0>>, <<Fin(4, 5), Fin(3, 5), F0>>, Fin(1, 2)) }

\* Values of get_rand() for which random_cosine_direction is rational.
quarter_turns == {F0, Fin(1, 4), Fin(1, 2), Fin(3, 4)}
square_draws  == {F0, Fin(2, 5), Fin(32, 45)}
\* rand_vec3_in_unit_sphere
rand_vec3_in_unit_sphere == {zeros}

\* self.scene.world.read().unwrap().hit(r, 0.001, f32::INFINITY)
world_hit(r) == hit(scene.world, r, Fin(1, 1000), PosInf)

\* self.scene.lights.read().unwrap().objects.is_empty()
lights_is_empty_never == FALSE
lights_is_empty == Len(scene.lights.objects) = 0

\* The colour of a ray that hits nothing.
miss_color_black == zeros
miss_color == scene.background

\* The depth of the recursive call.
recursive_depth_same(depth) == depth
recursive_depth(depth) == depth - 1

\* The weight the scattered radiance is divided by after a diffuse bounce.
diffuse_pdf_val_plain(p, cosine) == p
diffuse_pdf_val(p, cosine) ==
    FMul(FMul(FDiv(p, cosine), PI), Fin(2, 1))

\* attenuation.component_mul(&self.ray_color(..)) / pdf_val, added to emitted
radiance(emitted, attenuation, child, pdf_val) ==
    VAdd(emitted, VDivS(component_mul(attenuation, child), pdf_val))

\* What a step of ray_color saw.
NoObs == [step |-> "none", ray |-> Ray(zeros, y_axis, F0), depth |-> 0,
          rec |-> NoHit, emitted |-> zeros, s_type |-> "None",
          attenuation |-> zeros, mixed |-> "none", list_random |-> FALSE,
          list_pdf_val |-> FALSE, w |-> y_axis, p |-> F0, cosine |-> F0,
          pdf_val |-> F0, child |-> zeros, value |-> zeros]

TraceIdle ==
    /\ scene = Scene_new(<<>>, <<>>, zeros)
    /\ tr_pc = "idle" /\ tr_ray = Ray(zeros, y_axis, F0) /\ tr_depth = 0
    /\ tr_stack = <<>> /\ tr_value = zeros /\ tr_obs = NoObs /\ tr_calls = 0

\* draw calls self.ray_color(&ray, self.max_depth).
TraceInit ==
    /\ tr_ray \in PrimaryRays
    /\ tr_depth = max_depth
    /\ tr_pc = "call"
    /\ tr_stack = <<>> /\ tr_value = zeros /\ tr_obs = NoObs /\ tr_calls = 1

Returns(step, rec, emitted, value) ==
    /\ tr_pc' = "return"
    /\ tr_value' = value
    /\ tr_obs' = [NoObs EXCEPT !.step = step, !.ray = tr_ray,
                               !.depth = tr_depth, !.rec = rec,
                               !.emitted = emitted, !.value = value]
    /\ UNCHANGED <<scene, tr_ray, tr_depth, tr_stack, tr_calls>>

\* if depth == 0 { return Color::zeros(); }
ReturnBlack ==
    /\ tr_pc = "call"
    /\ tr_depth = 0
    /\ Returns("depth0", NoHit, zeros, zeros)

\* The world is not hit: self.scene.background
ReturnBackground ==
    /\ tr_pc = "call"
    /\ tr_depth # 0
    /\ ~world_hit(tr_ray).some
    /\ Returns("miss", NoHit, zeros, miss_color)

\* The material does not scatter: emitted + Color::zeros()
ReturnEmitted ==
    /\ tr_pc = "call"
    /\ tr_depth # 0
    /\ \E rec \in {world_hit(tr_ray)} :
         /\ rec.some
         /\ \E s \in rand_vec3_in_unit_sphere :
              ~scatter(rec.material, tr_ray, rec, s).some
         /\ \E emitted \in {emit(rec.material, rec.uv, rec.point)} :
              Returns("noscatter", rec, emitted, VAdd(emitted, zeros))

\* The activation is suspended on self.ray_color(&scattered, depth - 1).
Calls(obs, scattered) ==
    /\ tr_stack' = Append(tr_stack, obs)
    /\ tr_obs' = obs
    /\ tr_ray' = scattered
    /\ tr_depth' = recursive_depth(tr_depth)
    /\ tr_calls' = tr_calls + 1
    /\ tr_pc' = "call"
    /\ UNCHANGED <<scene, tr_value>>

\* HittableList::random on the lights indexed past the end of the vector.
Panics(obs) ==
    /\ tr_pc' = "panic"
    /\ tr_obs' = obs
    /\ UNCHANGED <<scene, tr_ray, tr_depth, tr_stack, tr_value, tr_calls>>

\* What ray_color knows once the material has scattered.
Seen(rec, sr) ==
    [NoObs EXCEPT !.step = "bounce", !.ray = tr_ray, !.depth = tr_depth,
                  !.rec = rec,
                  !.emitted = emit(rec.material, rec.uv, rec.point),
                  !.s_type = sr.s_type, !.attenuation = sr.attenuation]

\* The scattered ray of a diffuse bounce, its cosine and the weight.
Weighs(seen, mixed, p, list_random, scattered, cosine) ==
    Calls([seen EXCEPT !.mixed = mixed, !.w = scattered.direction,
                       !.p = p, !.cosine = cosine,
                       !.list_random = list_random,
                       !.list_pdf_val = (mixed = "mix"),
                       !.pdf_val = diffuse_pdf_val(p, cosine)],
          scattered)

\* let scattered = Ray::new(hit_record.point, mixed_pdf.generate(), r.time)
diffuse_scattered(hit_record, direction, r) ==
    Ray(hit_record.point, direction, r.time)

Scatters(seen, mixed, direction, p, list_random) ==
    Weighs(seen, mixed, p, list_random,
           diffuse_scattered(seen.rec, direction, tr_ray),
           FMax(dot(direction, seen.rec.normal), Fin(1, 10000)))

\* ScatterType::Diffuse: the direction is drawn from the cosine PDF, or from
\* its mixture with the PDF over the lights when there are lights.
BounceDiffuse ==
    /\ tr_pc = "call"
    /\ tr_depth # 0
    /\ \E rec \in {world_hit(tr_ray)} :
       /\ rec.some
       /\ \E s \in rand_vec3_in_unit_sphere :
          \E sr \in {scatter(rec.material, tr_ray, rec, s)} :
          /\ sr.some
          /\ sr.s_type = "Diffuse"
          /\ \E seen \in {Seen(rec, sr)} :
             IF lights_is_empty
             THEN \E r1 \in quarter_turns, g \in square_draws :
                    \E direction \in {cosine_generate(sr.w, r1, g)} :
                      Scatters(seen, "cosine", direction,
                               cosine_value(sr.w, direction), FALSE)
             ELSE \E sel \in get_rand :
                    IF FLt(sel, Fin(1, 2))
                    THEN \E r1 \in quarter_turns, g \in square_draws :
                           \E direction \in {cosine_generate(sr.w, r1, g)} :
                             Scatters(seen, "mix", direction,
                                      mix_value(cosine_value(sr.w, direction),
                                                pdf_val_of(scene.lights,
                                                           rec.point,
                                                           direction)),
                                      FALSE)
                    ELSE \E rand \in get_rand :
                           \E drawn \in {random(scene.lights, rec.point,
                                                rand)} :
                             IF drawn.panic
                             THEN Panics([seen EXCEPT !.mixed = "mix",
                                                      !.list_random = TRUE])
                             ELSE Scatters(seen, "mix", drawn.direction,
                                           mix_value(
                                             cosine_value(sr.w,
                                                          drawn.direction),
                                             pdf_val_of(scene.lights,
                                                        rec.point,
                                                        drawn.direction)),
                                           TRUE)

\* ScatterType::Specular and ScatterType::ISO: (scattered, 1.)
BounceSpecular ==
    /\ tr_pc = "call"
    /\ tr_depth # 0
    /\ \E rec \in {world_hit(tr_ray)} :
       /\ rec.some
       /\ \E s \in rand_vec3_in_unit_sphere :
          \E sr \in {scatter(rec.material, tr_ray, rec, s)} :
          /\ sr.some
          /\ sr.s_type \in {"Specular", "ISO"}
          /\ Calls([Seen(rec, sr) EXCEPT !.w = sr.scattered.direction,
                                         !.pdf_val = F1],
                   sr.scattered)

\* The recursive call returns to the activation that made it, which returns
\* emitted + attenuation.component_mul(value) / pdf_val.
Unwind ==
    /\ tr_pc = "return"
    /\ tr_stack # <<>>
    /\ \E caller \in {tr_stack[Len(tr_stack)]} :
       \E value \in {radiance(caller.emitted, caller.attenuation, tr_value,
                              caller.pdf_val)} :
           /\ tr_value' = value
           /\ tr_obs' = [caller EXCEPT !.step = "unwind", !.child = tr_value,
                                       !.value = value]
           /\ tr_ray' = caller.ray
           /\ tr_depth' = caller.depth
           /\ tr_stack' = SubSeq(tr_stack, 1, Len(tr_stack) - 1)
    /\ UNCHANGED <<scene, tr_pc, tr_calls>>

\* The outermost activation returns to draw.
Finish ==
    /\ tr_pc = "return"
    /\ tr_stack = <<>>
    /\ tr_pc' = "done"
    /\ UNCHANGED <<scene, tr_ray, tr_depth, tr_stack, tr_value, tr_obs,
                   tr_calls>>

(***************************************************************************)
(* One call of hit and bounding_box on a primitive of geo.rs               *)
(***************************************************************************)
GeoIdle ==
    /\ g_pc = "idle" /\ g_self = HittableList(<<>>)
    /\ g_ray = Ray(zeros, y_axis, F0) /\ g_t_min = F0 /\ g_t_max = F0
    /\ g_ln = F0 /\ g_rec = NoHit /\ g_box = NoBox

grey == Lambertian(repeat(Fin(1, 2)))

\* The primitives the calls are made on: spheres of radius 1 and 1/2, a
\* rectangle and a cuboid, and the wrappers around them.
Spheres == {Sphere(<<F0, F0, FNeg(F1)>>, F1, grey),
            Sphere(<<F0, F0, FNeg(F1)>>, Fin(1, 2), grey),
            Sphere(zeros, F1, grey)}

Rects == {AxisAlignedRect(grey, FNeg(F1), <<FNeg(F1), FNeg(F1)>>,
                          <<F1, F1>>, "XY")}

Cuboids == {Cuboid(<<FNeg(F1), FNeg(F1), Fin(-2, 1)>>,
                   <<F1, F1, FNeg(F1)>>, grey)}

Offsets == {<<F0, F0, FNeg(F1)>>, <<F0, F0, Fin(2, 1)>>}

\* Quarter turns for the primitives with rectangles, whose coordinates are
\* in ten-thousandths.
Degrees == {90, 270}

Closed == Spheres \cup Rects \cup Cuboids

Turned == {RotationY(obj, degree) :
              obj \in Rects \cup Cuboids, degree \in Degrees}
          \cup {RotationY(Sphere(zeros, F1, grey), 53)}

Moved == {Translation(obj, offset) :
             obj \in Closed \cup {RotationY(obj, 90) : obj \in Cuboids}
                     \cup {HittableList(<<>>)},
             offset \in Offsets}

Shapes == Closed \cup Turned \cup Moved \cup {HittableList(<<>>)}

Media == {ConstantMedium(boundary, density, repeat(F1)) :
             boundary \in {Sphere(zeros, F1, grey)} \cup Rects \cup Cuboids,
             density \in {F1, Fin(1, 100)}}

\* The rays of the calls: down the z axis through a centre and beside it,
\* up from a centre, across the x axis, down the z axis from z = 1, and in
\* the plane x = 1 away from every primitive.
GeoRays == {Ray(zeros, <<F0, F0, FNeg(F1)>>, F0),
            Ray(<<Fin(3, 5), F0, F0>>, <<F0, F0, FNeg(F1)>>, F0),
            Ray(<<F0, F0, FNeg(F1)>>, <<F0, F1, F0>>, F0),
            Ray(zeros, <<F1, F0, F0>>, F0),
            Ray(<<F0, F0, F1>>, <<F0, F0, FNeg(F1)>>, F0),
            Ray(<<F1, Fin(5, 1), F0>>, <<F0, F0, F1>>, F0)}

\* [t_min, t_max] of the calls
Intervals == {<<Fin(1, 1000), PosInf>>, <<Fin(1, 1000), F1>>,
              <<Fin(1, 2), Fin(3, 2)>>, <<Fin(3, 1), Fin(4, 1)>>}

\* get_rand().ln() for draws of get_rand() from 0 to the largest
ln_get_rand == {NegInf, Fin(-3, 1), Fin(-1, 10), F0}

GeoInit ==
    /\ g_pc = "call"
    /\ g_self \in Shapes \cup Media
    /\ g_ray \in GeoRays
    /\ \E i \in Intervals : g_t_min = i[1] /\ g_t_max = i[2]
    /\ g_ln = F0 /\ g_rec = NoHit /\ g_box = NoBox

\* hit and bounding_box of a primitive that draws nothing
Hit ==
    /\ g_pc = "call"
    /\ g_self.kind # "ConstantMedium"
    /\ g_rec' = hit(g_self, g_ray, g_t_min, g_t_max)
    /\ g_box' = bounding_box(g_self, F0, F1)
    /\ g_pc' = "done"
    /\ UNCHANGED <<g_self, g_ray, g_t_min, g_t_max, g_ln>>

\* hit and bounding_box of a ConstantMedium
MediumHit ==
    /\ g_pc = "call"
    /\ g_self.kind = "ConstantMedium"
    /\ g_ln' \in ln_get_rand
    /\ g_rec' = medium_hit(g_self, g_ray, g_t_min, g_t_max, g_ln')
    /\ g_box' = bounding_box(g_self.boundary, F0, F1)
    /\ g_pc' = "done"
    /\ UNCHANGED <<g_self, g_ray, g_t_min, g_t_max>>

(***************************************************************************)
(* BVHNode::new and BVHNode::hit (aabb.rs:50-105)                          *)
(***************************************************************************)
\* The longest list BVHNode::new is given, and the depth of nested calls at
\* which the stack of the thread is exhausted.
MaxObjects == 3
MaxStack == 3

\* BVHNode::box_compare: the key of an object, or the panic of .expect.
box_compare_or_first(a, axis) ==
    [panic |-> FALSE, value |-> bounding_box(a, F0, F0).minimum[axis + 1]]

box_compare(a, axis) ==
    [panic |-> ~bounding_box(a, F0, F0).some,
     value |-> bounding_box(a, F0, F0).minimum[axis + 1]]

\* objects.sort_by(box_compare ... partial_cmp): a stable sort by the key;
\* x goes behind the objects whose key is not above its own.
sort_insert_drops_ties(sorted, x, axis) ==
    IF \E i \in 1..Len(sorted) :
          box_compare(x, axis).value = box_compare(sorted[i], axis).value
    THEN sorted
    ELSE LET n == Cardinality({i \in 1..Len(sorted) :
                      ~FLt(box_compare(x, axis).value,
                           box_compare(sorted[i], axis).value)})
         IN  SubSeq(sorted, 1, n) \o <<x>> \o SubSeq(sorted, n + 1, Len(sorted))

sort_insert(sorted, x, axis) ==
    LET n == Cardinality({i \in 1..Len(sorted) :
                 ~FLt(box_compare(x, axis).value,
                      box_compare(sorted[i], axis).value)})
    IN  SubSeq(sorted, 1, n) \o <<x>> \o SubSeq(sorted, n + 1, Len(sorted))

RECURSIVE sort_by(_, _)
sort_by(objects, axis) ==
    IF objects = <<>> THEN <<>>
    ELSE sort_insert(sort_by(SubSeq(objects, 1, Len(objects) - 1), axis),
                     objects[Len(objects)], axis)

\* The comparator of sort_by panics: an object without a box, or a NaN key.
\* A slice of fewer than two objects is never compared.
sort_panics(objects, axis) ==
    /\ Len(objects) >= 2
    /\ \E i \in 1..Len(objects) :
          \/ box_compare(objects[i], axis).panic
          \/ is_nan(box_compare(objects[i], axis).value)

\* A child that is not there yet.
Absent == [kind |-> "absent"]

\* One activation of BVHNode::new: its objects, where it is (at its start,
\* in the call for the left half, in the call for the right half, or at
\* left_box), and its children.
Frame(objects) ==
    [objects |-> objects, st |-> "enter", left |-> Absent, right |-> Absent]

\* BVHNode { left, right, bbox }
BVHNode(left, right, bbox) ==
    [kind |-> "BVHNode", left |-> left, right |-> right, bbox |-> bbox]

\* The primitives of the lists: two spheres one behind the other, a small
\* sphere beside them, and an empty list, which has no bounding box.
BVHPrims == {Sphere(<<F0, F0, Fin(-2, 1)>>, F1, grey),
             Sphere(<<F0, F0, Fin(-5, 1)>>, F1, grey),
             Sphere(<<Fin(2, 1), F1, Fin(-3, 1)>>, Fin(1, 2), grey),
             HittableList(<<>>)}

BVHLists == UNION {[1..n -> BVHPrims] : n \in 0..MaxObjects}

BVHIdle == bvh_pc = "idle" /\ bvh_list = <<>> /\ bvh_stack = <<>>
           /\ bvh_ret = Absent

\* BVHNode::new(&objects, 0., 1.) is called.
BVHInit ==
    /\ bvh_pc = "build"
    /\ bvh_list \in BVHLists
    /\ bvh_stack = <<Frame(bvh_list)>>
    /\ bvh_ret = Absent

\* The frame on top of the stack, with some fields replaced.
top == bvh_stack[Len(bvh_stack)]
with_top(activation) ==
    [bvh_stack EXCEPT ![Len(bvh_stack)] = activation]

\* BVHNode::new from its start to the choice of (left, right) or to the
\* first recursive call; axis is the draw of get_rand_int_range(0, 3).
BVHSplitOn(axis, objects) ==
    CASE Len(objects) = 1 ->
           /\ bvh_stack' = with_top([top EXCEPT !.st = "join",
                                       !.left = objects[1],
                                       !.right = objects[1]])
           /\ UNCHANGED bvh_pc
      [] Len(objects) = 2 ->
           IF box_compare(objects[1], axis).panic
              \/ box_compare(objects[2], axis).panic
           THEN bvh_pc' = "panic" /\ UNCHANGED bvh_stack
           ELSE /\ bvh_stack' =
                     IF FLt(box_compare(objects[1], axis).value,
                            box_compare(objects[2], axis).value)
                     THEN with_top([top EXCEPT !.st = "join",
                                      !.left = objects[1],
                                      !.right = objects[2]])
                     ELSE with_top([top EXCEPT !.st = "join",
                                      !.left = objects[2],
                                      !.right = objects[1]])
                /\ UNCHANGED bvh_pc
      [] OTHER ->
           IF sort_panics(objects, axis)
           THEN bvh_pc' = "panic" /\ UNCHANGED bvh_stack
           ELSE IF Len(bvh_stack) >= MaxStack
           THEN bvh_pc' = "overflow" /\ UNCHANGED bvh_stack
           ELSE /\ bvh_stack' =
                     Append(with_top([top EXCEPT
                                !.st = "left",
                                !.objects = sort_by(objects, axis)]),
                            Frame(SubSeq(sort_by(objects, axis), 1,
                                         Len(objects) \div 2)))
                /\ UNCHANGED bvh_pc

BVHSplit ==
    /\ bvh_pc = "build"
    /\ top.st = "enter"
    /\ \E axis \in 0..2 : BVHSplitOn(axis, top.objects)
    /\ UNCHANGED <<bvh_list, bvh_ret>>

\* The caller of a BVHNode::new that returned node goes on: the outermost
\* caller has the tree, the call for the left half is followed by the call
\* for the right half, the call for the right half by left_box.
BVHReturn(node, callers) ==
    IF callers = <<>>
    THEN bvh_pc' = "done" /\ bvh_ret' = node /\ bvh_stack' = <<>>
    ELSE /\ UNCHANGED <<bvh_pc, bvh_ret>>
         /\ bvh_stack' =
              IF callers[Len(callers)].st = "left"
              THEN Append([callers EXCEPT ![Len(callers)] =
                              [@ EXCEPT !.st = "right", !.left = node]],
                          Frame(SubSeq(callers[Len(callers)].objects,
                                  Len(callers[Len(callers)].objects) \div 2 + 1,
                                  Len(callers[Len(callers)].objects))))
              ELSE [callers EXCEPT ![Len(callers)] =
                       [@ EXCEPT !.st = "join", !.right = node]]

\* BVHNode::new from left_box to its return, bbox being the surrounding box
\* of the children.
BVHJoinWith(bbox) ==
    IF ~bbox.some
    THEN bvh_pc' = "panic" /\ UNCHANGED <<bvh_stack, bvh_ret>>
    ELSE BVHReturn(BVHNode(top.left, top.right, bbox),
                   SubSeq(bvh_stack, 1, Len(bvh_stack) - 1))

BVHJoin ==
    /\ bvh_pc = "build"
    /\ top.st = "join"
    /\ BVHJoinWith(surrounding_box(bounding_box(top.left, F0, F1),
                                   bounding_box(top.right, F0, F1)))
    /\ UNCHANGED bvh_list

\* The rays and intervals of the calls of hit on the tree.
BVHRays == {Ray(zeros, <<F0, F0, FNeg(F1)>>, F0),
            Ray(<<Fin(3, 5), F0, F0>>, <<F0, F0, FNeg(F1)>>, F0),
            Ray(zeros, <<F0, F1, F0>>, F0)}

BVHIntervals == {<<Fin(1, 1000), PosInf>>, <<Fin(1, 1000), F1>>,
                 <<Fin(7, 2), Fin(9, 2)>>}

\* BVHNode::hit on the tree that was built.
BVHHit ==
    /\ bvh_pc = "done" /\ g_pc = "idle"
    /\ g_ray' \in BVHRays
    /\ \E i \in BVHIntervals : g_t_min' = i[1] /\ g_t_max' = i[2]
    /\ g_rec' = hit(bvh_ret, g_ray', g_t_min', g_t_max')
    /\ g_box' = bounding_box(bvh_ret, F0, F1)
    /\ g_self' = bvh_ret
    /\ g_pc' = "done"
    /\ UNCHANGED <<g_ln, bvh_pc, bvh_list, bvh_stack, bvh_ret>>

(***************************************************************************)
(* Scene construction: select_scene, select_camera, ImageTexture::new and  *)
(* Metal::new (scene.rs, camera.rs:96-138, texture.rs:71-103)              *)
(***************************************************************************)
\* anyhow::Result and Option
Ok(value)  == [ok |-> TRUE, value |-> value]
Err(error) == [ok |-> FALSE, value |-> error]
and_then(result, f(_)) == IF result.ok THEN f(result.value) ELSE result
Some(value) == [some |-> TRUE, value |-> value]
None == [some |-> FALSE, value |-> <<>>]
ok(result) == IF result.ok THEN Some(result.value) ELSE None

\* The asset file static/earthmap.jpg as std::fs::read finds it: missing,
\* not an image, or an image of 2 x 2 pixels.
Files == {[exists |-> FALSE, format |-> "none", rows |-> <<>>],
          [exists |-> TRUE, format |-> "garbage", rows |-> <<>>],
          [exists |-> TRUE, format |-> "jpeg",
           rows |-> << << <<255, 0, 0>>, <<0, 255, 0>> >>,
                       << <<0, 0, 255>>, <<51, 102, 153>> >> >>]}

\* resource::load_binary
load_binary(file) ==
    IF file.exists THEN Ok([format |-> file.format, rows |-> file.rows])
    ELSE Err("No such file or directory")

\* ImageTexture::from_bytes: decode, then flip_vertical_in_place
from_bytes(bytes) ==
    IF bytes.format = "garbage" THEN Err("The image format could not be determined")
    ELSE Ok([y \in 1..Len(bytes.rows) |->
                bytes.rows[Len(bytes.rows) + 1 - y]])

\* ImageTexture::new
ImageTexture(file) ==
    [kind |-> "ImageTexture", img |-> ok(and_then(load_binary(file), from_bytes))]

\* f32::clamp(0., 1.)
clamp01(x) == IF FLt(x, F0) THEN F0 ELSE IF FGt(x, F1) THEN F1 ELSE x

\* `as u32`: NaN and negatives give 0, the fraction is dropped, and values
\* beyond the range saturate (at the largest integer here, where the code
\* has u32::MAX; the only use takes the minimum with d - 1).
as_u32(x) ==
    CASE is_nan(x)      -> 0
      [] x.k = "ninf"   -> 0
      [] x.k = "inf"    -> 2147483647
      [] x.n < 0        -> 0
      [] OTHER          -> x.n \div x.d

\* ImageTexture::value: the pixel under uv scaled by 1/255, or the colour
\* (0, 1, 1) when there is no image.
image_value_black(self, uv) ==
    IF self.img.some
    THEN LET h == Len(self.img.value)
             w == Len(self.img.value[1])
             x == IF as_u32(FMul(clamp01(uv[1]), Fin(w, 1))) < w - 1
                  THEN as_u32(FMul(clamp01(uv[1]), Fin(w, 1))) ELSE w - 1
             y == IF as_u32(FMul(clamp01(uv[2]), Fin(h, 1))) < h - 1
                  THEN as_u32(FMul(clamp01(uv[2]), Fin(h, 1))) ELSE h - 1
         IN  [i \in 1..3 |-> FMul(Fin(self.img.value[y + 1][x + 1][i], 1),
                                  FDiv(F1, Fin(255, 1)))]
    ELSE zeros

image_value(self, uv) ==
    IF self.img.some
    THEN LET h == Len(self.img.value)
             w == Len(self.img.value[1])
             x == IF as_u32(FMul(clamp01(uv[1]), Fin(w, 1))) < w - 1
                  THEN as_u32(FMul(clamp01(uv[1]), Fin(w, 1))) ELSE w - 1
             y == IF as_u32(FMul(clamp01(uv[2]), Fin(h, 1))) < h - 1
                  THEN as_u32(FMul(clamp01(uv[2]), Fin(h, 1))) ELSE h - 1
         IN  [i \in 1..3 |-> FMul(Fin(self.img.value[y + 1][x + 1][i], 1),
                                  FDiv(F1, Fin(255, 1)))]
    ELSE <<F0, F1, F1>>

\* CheckerTexture::new and NoiseTexture::new (the Perlin noise left out)
CheckerTexture(even, odd) ==
    [kind |-> "CheckerTexture", odd |-> odd, even |-> even]
NoiseTexture(scale) == [kind |-> "NoiseTexture", scale |-> scale]

\* Dielectric::new, which asserts index_of_refraction > 0
Dielectric(index_of_refraction) ==
    IF FGt(index_of_refraction, F0)
    THEN [kind |-> "Dielectric", index_of_refraction |-> index_of_refraction]
    ELSE [kind |-> "panic"]

\* Scene::new with the label of the scene
Scene(lights, world, colour, label) ==
    [lights |-> Scene_new(lights, world, colour).lights,
     world |-> Scene_new(lights, world, colour).world,
     background |-> colour, label |-> label]

\* The primitives of a builder that are not spelled out here.
Rest(builder) == [kind |-> "Rest", of |-> builder]

\* The scene builders of scene.rs
two_spheres(name) ==
    LET mat == Lambertian(CheckerTexture(<<Fin(1, 5), Fin(3, 10), Fin(1, 10)>>,
                                         repeat(Fin(9, 10))))
    IN  Scene(<<>>,
              <<Sphere(<<F0, Fin(-10, 1), F0>>, Fin(10, 1), mat),
                Sphere(<<F0, Fin(10, 1), F0>>, Fin(10, 1), mat)>>,
              Sky, name)

two_perlin_spheres(name) ==
    LET pertex == NoiseTexture(Fin(4, 1))
    IN  Scene(<<>>,
              <<Sphere(<<F0, Fin(-1000, 1), F0>>, Fin(1000, 1),
                       Lambertian(pertex)),
                Sphere(<<F0, Fin(2, 1), F0>>, Fin(2, 1), Lambertian(pertex))>>,
              Sky, name)

earth(name, file) ==
    Scene(<<>>,
          <<Sphere(zeros, Fin(2, 1), Lambertian(ImageTexture(file)))>>,
          Sky, name)

simplelight(name) ==
    LET pertex == NoiseTexture(Fin(4, 1))
    IN  Scene(<<>>,
              <<Sphere(<<F0, Fin(-1000, 1), F0>>, Fin(1000, 1),
                       Lambertian(pertex)),
                Sphere(<<F0, Fin(2, 1), F0>>, Fin(2, 1), Lambertian(pertex)),
                AxisAlignedRect(DiffuseLight(repeat(Fin(4, 1))), Fin(-4, 1),
                                <<Fin(3, 1), F1>>, <<Fin(5, 1), Fin(3, 1)>>,
                                "XY")>>,
              zeros, name)

create_random_scene(name) ==
    Scene(<<Sphere(<<F0, F1, F0>>, F1, Dielectric(Fin(3, 2)))>>,
          <<Rest("create_random_sphere"),
            Sphere(<<F0, Fin(-1000, 1), F0>>, Fin(1000, 1),
                   Lambertian(CheckerTexture(
                       <<Fin(1, 5), Fin(3, 10), Fin(1, 10)>>,
                       repeat(Fin(9, 10))))),
            Sphere(<<Fin(-4, 1), F1, F0>>, F1,
                   Lambertian(<<Fin(2, 5), Fin(1, 5), Fin(1, 10)>>)),
            Sphere(<<Fin(4, 1), F1, F0>>, F1,
                   Metal(<<Fin(7, 10), Fin(3, 5), Fin(1, 2)>>, F0))>>,
          Sky, name)

cornell_box(label) ==
    Scene(<<Rest("cornell_box lights")>>, <<Rest("cornell_box objects")>>,
          zeros, label)

cornell_smoke(label) ==
    Scene(<<Rest("cornell_smoke lights")>>, <<Rest("cornell_smoke objects")>>,
          zeros, label)

final_scene(label) ==
    Scene(<<Rest("final_scene lights")>>, <<Rest("final_scene world")>>,
          zeros, label)

\* select_scene; file is the asset that earth loads.
select_scene_falls_back_to_2psp(name, file) ==
    CASE name = "random"      -> create_random_scene(name)
      [] name = "2psp"        -> two_perlin_spheres(name)
      [] name = "earth"       -> earth(name, file)
      [] name = "simplelight" -> simplelight(name)
      [] name = "cornell"     -> cornell_box(name)
      [] name = "final"       -> final_scene(name)
      [] name = "smoke"       -> cornell_smoke(name)
      [] name = "2sp"         -> two_spheres(name)
      [] OTHER                -> two_perlin_spheres(name)

select_scene(name, file) ==
    CASE name = "random"      -> create_random_scene(name)
      [] name = "2psp"        -> two_perlin_spheres(name)
      [] name = "earth"       -> earth(name, file)
      [] name = "simplelight" -> simplelight(name)
      [] name = "cornell"     -> cornell_box(name)
      [] name = "final"       -> final_scene(name)
      [] name = "smoke"       -> cornell_smoke(name)
      [] OTHER                -> two_spheres(name)

\* Camera::new, a function of its arguments, as the record of them.
Camera(lookfrom, direction, vup, vfov, aspect_ratio, aperture, focus_dist, time0, time1) ==
    [lookfrom |-> lookfrom, direction |-> direction, vup |-> vup,
     vfov |-> vfov, aspect_ratio |-> aspect_ratio, aperture |-> aperture,
     focus_dist |-> focus_dist, time0 |-> time0, time1 |-> time1]

\* Camera::select_camera
select_camera(aspect_ratio, name) ==
    LET lookfrom ==
            CASE name \in {"cornell", "smoke"} ->
                   <<Fin(278, 1), Fin(278, 1), Fin(-800, 1)>>
              [] name = "simplelight" ->
                   VScale(Fin(2, 1), <<Fin(13, 1), Fin(3, 2), Fin(3, 1)>>)
              [] name = "final" -> <<Fin(478, 1), Fin(278, 1), Fin(-600, 1)>>
              [] OTHER -> <<Fin(13, 1), Fin(2, 1), Fin(3, 1)>>
        direction ==
            CASE name \in {"cornell", "smoke", "final"} ->
                   VSub(<<Fin(278, 1), Fin(278, 1), F0>>, lookfrom)
              [] name = "simplelight" ->
                   VSub(<<F0, Fin(2, 1), F0>>, lookfrom)
              [] OTHER -> <<Fin(-13, 1), Fin(-2, 1), Fin(-3, 1)>>
        vfov == IF name \in {"cornell", "smoke", "final"} THEN Fin(40, 1)
                ELSE Fin(20, 1)
    IN  Camera(lookfrom, direction, y_axis, vfov, aspect_ratio, Fin(1, 10),
               Fin(10, 1), F0, F1)

\* The names --scene may carry: the eight of select_scene and three others.
Known == {"random", "2sp", "2psp", "earth", "simplelight", "cornell", "smoke",
          "final"}
Names == Known \cup {"", "2SP", "cornel"}

\* width / height of the window
AspectRatio == Fin(3, 2)

\* The fuzz values Metal::new is given, and the uv of texture lookups.
Fuzzes == {Fin(-1, 2), F0, Fin(3, 10), F1, Fin(3, 2), PosInf, NegInf, NaN}
UVs == {<<F0, F0>>, <<Fin(1, 2), Fin(3, 4)>>, <<F1, F1>>,
        <<Fin(-1, 1), Fin(2, 1)>>, <<NaN, PosInf>>}

BuildIdleWith(file) ==
    /\ b_file = file /\ b_name = "" /\ b_scene = Absent /\ b_camera = Absent
    /\ b_texture = Absent /\ b_uv = <<F0, F0>> /\ b_value = Absent
    /\ b_metal = Absent

BuildIdle == BuildIdleWith([exists |-> FALSE, format |-> "none", rows |-> <<>>])

BuildInit == \E file \in Files : BuildIdleWith(file)

\* cli.rs / Renderer::update: select_camera and select_scene of one name
SelectScene ==
    /\ b_scene = Absent
    /\ b_name' \in Names
    /\ b_camera' = select_camera(AspectRatio, b_name')
    /\ b_scene' = select_scene(b_name', b_file)
    /\ UNCHANGED <<b_file, b_texture, b_uv, b_value, b_metal>>

\* ImageTexture::new("earthmap.jpg")
NewImageTexture ==
    /\ b_texture = Absent
    /\ b_texture' = ImageTexture(b_file)
    /\ UNCHANGED <<b_file, b_name, b_scene, b_camera, b_uv, b_value, b_metal>>

\* Texture::value of the texture that was made
TextureValue ==
    /\ b_texture # Absent /\ b_value = Absent
    /\ b_uv' \in UVs
    /\ b_value' = image_value(b_texture, b_uv')
    /\ UNCHANGED <<b_file, b_name, b_scene, b_camera, b_texture, b_metal>>

\* Metal::new
NewMetal ==
    /\ b_metal = Absent
    /\ \E fuzz \in Fuzzes :
          b_metal' = Metal(<<Fin(7, 10), Fin(3, 5), Fin(1, 2)>>, fuzz)
    /\ UNCHANGED <<b_file, b_name, b_scene, b_camera, b_texture, b_uv, b_value>>

(***************************************************************************)
(* Perlin noise (perlin.rs)                                                *)
(***************************************************************************)
POINT_COUNT == 256

\* f32::floor of a finite value, as an integer
f32_floor(x) == x.n \div x.d

\* ^ on usize
RECURSIVE bitxor(_, _)
bitxor(a, b) ==
    IF a = 0 THEN b
    ELSE IF b = 0 THEN a
    ELSE 2 * bitxor(a \div 2, b \div 2) + ((a + b) % 2)

\* Unit vectors that UnitVector3::new_normalize can return in Perlin::new.
Gradients ==
    << <<F1, F0, F0>>, <<Fin(-1, 1), F0, F0>>, <<F0, F1, F0>>,
       <<F0, Fin(-1, 1), F0>>, <<F0, F0, F1>>, <<F0, F0, Fin(-1, 1)>>,
       <<Fin(3, 5), Fin(4, 5), F0>>, <<Fin(-4, 5), F0, Fin(3, 5)>>,
       <<Fin(-3, 5), Fin(-4, 5), F0>> >>

\* Perlin::new: the tables that the random draws of one run produce.  The
\* draws are named by a seed: gradient i is Gradients[(g * i + h) mod 9],
\* and the permutation of axis a is i -> (m[a] * i + c[a]) mod 256 with
\* m[a] odd, one of the orders that permute can produce.
Perlin(seed) ==
    [rand_float |-> [i \in 0..(POINT_COUNT - 1) |->
                        Gradients[((seed.g * i + seed.h) % Len(Gradients)) + 1]],
     perm |-> [a \in 1..3 |-> [i \in 0..(POINT_COUNT - 1) |->
                                  (seed.m[a] * i + seed.c[a]) % POINT_COUNT]]]

\* Perlin::trilinear_interp; c is indexed by <<i, j, k>> in {0, 1}^3.
trilinear_interp(c, p) ==
    LET x3 == [a \in 1..3 |-> FSub(p[a], Fin(f32_floor(p[a]), 1))]
        uvw == [a \in 1..3 |->
                   FMul(FMul(x3[a], x3[a]),
                        FSub(Fin(3, 1), FMul(Fin(2, 1), x3[a])))]
        term(ijk) ==
            LET weight == [a \in 1..3 |-> FSub(uvw[a], Fin(ijk[a], 1))]
                f(a) == FAdd(FMul(Fin(ijk[a], 1), uvw[a]),
                             FMul(FSub(F1, Fin(ijk[a], 1)), FSub(F1, uvw[a])))
            IN  FMul(dot(c[ijk], weight), FMul(FMul(FMul(F1, f(1)), f(2)), f(3)))
        order == << <<0, 0, 0>>, <<0, 0, 1>>, <<0, 1, 0>>, <<0, 1, 1>>,
                    <<1, 0, 0>>, <<1, 0, 1>>, <<1, 1, 0>>, <<1, 1, 1>> >>
        accm[n \in 0..8] ==
            IF n = 0 THEN F0 ELSE FAdd(accm[n - 1], term(order[n]))
    IN  accm[8]

\* Perlin::noise
noise(self, p) ==
    LET indexes == [a \in 1..3 |-> f32_floor(p[a])]
        ind(d) == bitxor(bitxor(bitxor(0,
                      self.perm[1][(indexes[1] + d[1]) % POINT_COUNT]),
                      self.perm[2][(indexes[2] + d[2]) % POINT_COUNT]),
                      self.perm[3][(indexes[3] + d[3]) % POINT_COUNT])
        c == [d \in {0, 1} \X {0, 1} \X {0, 1} |-> self.rand_float[ind(d)]]
    IN  trilinear_interp(c, p)

\* One round of the fold of Perlin::turb on state (accum, weight, temp_p),
\* given the value of self.noise(temp_p)
turb_round(state, noise_p) ==
    <<FAdd(state[1], FMul(state[2], noise_p)), FMul(Fin(1, 2), state[2]),
      VScale(Fin(2, 1), state[3])>>

\* depth.unwrap_or(7)
rounds(depth) == IF depth.some THEN depth.value ELSE 7

\* The outcomes of the draws of Perlin::new, the points and the depths
Seeds ==
    {[g |-> g, h |-> h, m |-> m, c |-> c] :
        g \in {1, 2}, h \in {0, 4},
        m \in {<<1, 1, 1>>, <<3, 5, 255>>},
        c \in {<<0, 0, 0>>, <<17, 200, 3>>}}
NoisePoints ==
    {zeros, <<Fin(1, 4), F0, F0>>, <<Fin(1, 4), Fin(1, 2), F0>>,
     <<Fin(3, 4), F0, Fin(1, 2)>>, <<Fin(-1, 4), F1, F0>>,
     <<F0, Fin(5, 4), Fin(-3, 2)>>, repeat(Fin(1, 2)),
     <<Fin(7, 2), Fin(-9, 4), Fin(255, 1)>>, <<F0, F0, Fin(3, 4)>>}
Depths == {None, Some(1), Some(2)}

NoiseIdle ==
    /\ n_pc = "idle" /\ n_seed = [g |-> 1, h |-> 0, m |-> <<1, 1, 1>>,
                                  c |-> <<0, 0, 0>>]
    /\ n_p = zeros /\ n_depth = None /\ n_fold = <<F0, F1, zeros>>
    /\ n_obs = <<>> /\ n_turb = F0

\* Perlin::new
NewPerlin ==
    /\ n_pc = "idle"
    /\ n_seed' \in Seeds
    /\ n_pc' = "made"
    /\ UNCHANGED <<n_p, n_depth, n_fold, n_obs, n_turb>>

\* Perlin::turb is called on the tables that were made: the fold starts
\* from (0., 1., p).
TurbCall ==
    /\ n_pc = "made"
    /\ n_p' \in NoisePoints
    /\ n_depth' \in Depths
    /\ n_fold' = <<F0, F1, n_p'>>
    /\ n_obs' = <<>>
    /\ n_pc' = "fold"
    /\ UNCHANGED <<n_seed, n_turb>>

\* One round of the fold
TurbRoundAt(noise_p) ==
    /\ n_fold' = turb_round(n_fold, noise_p)
    /\ n_obs' = Append(n_obs, [p |-> n_fold[3], noise |-> noise_p])

TurbRound ==
    /\ n_pc = "fold" /\ Len(n_obs) < rounds(n_depth)
    /\ \E noise_p \in {noise(Perlin(n_seed), n_fold[3])} : TurbRoundAt(noise_p)
    /\ UNCHANGED <<n_pc, n_seed, n_p, n_depth, n_turb>>

\* accum.abs()
TurbReturn ==
    /\ n_pc = "fold" /\ Len(n_obs) = rounds(n_depth)
    /\ n_turb' = FAbs(n_fold[1])
    /\ n_pc' = "done"
    /\ UNCHANGED <<n_seed, n_p, n_depth, n_fold, n_obs>>

(***************************************************************************)
(* The bases of CosinePDF and Camera (onb.rs:40-50, pdf.rs:15-32,          *)
(* camera.rs:29-69)                                                        *)
(***************************************************************************)
\* (theta / 2.).tan() for theta = degree_to_radian(vfov): exact for the
\* right angle and for the 3-4-5 angle.
tan_half(vfov) == CASE vfov = 90 -> F1 [] vfov = 53 -> Fin(1, 2)

\* Camera::new
Camera_new(lookfrom, direction, vup, vfov, aspect_ratio, aperture, focus_dist, time0, time1) ==
    LET h == tan_half(vfov)
        viewport_height == FMul(Fin(2, 1), h)
        viewport_width == FMul(viewport_height, aspect_ratio)
        w == VNeg(new_normalize(direction))
        u == cross(vup, w)
        v == cross(w, u)
        horizontal == VScale(FMul(focus_dist, viewport_width), u)
        vertical == VScale(FMul(focus_dist, viewport_height), v)
    IN  [origin |-> lookfrom, horizontal |-> horizontal, vertical |-> vertical,
         lower_left_corner |->
             VSub(VSub(VSub(lookfrom, VDivS(horizontal, Fin(2, 1))),
                       VDivS(vertical, Fin(2, 1))),
                  VScale(focus_dist, w)),
         vfov |-> vfov, vup |-> vup, w |-> w, u |-> u, v |-> v,
         len_radius |-> FDiv(aperture, Fin(2, 1)), focus_dist |-> focus_dist,
         time0 |-> time0, time1 |-> time1, aspect_ratio |-> aspect_ratio]

\* Unit vectors that CosinePDF::new is given, the draws of get_rand() in
\* random_cosine_direction, and the arguments of Camera::new.
UnitWs ==
    {x_axis, y_axis, <<F0, F0, F1>>, <<F0, Fin(-1, 1), F0>>,
     <<Fin(3, 5), Fin(4, 5), F0>>, <<F0, Fin(3, 5), Fin(4, 5)>>,
     <<Fin(12, 13), Fin(5, 13), F0>>, <<Fin(-12, 13), F0, Fin(5, 13)>>,
     <<Fin(2, 3), Fin(-1, 3), Fin(2, 3)>>}
CosineDraws == {F0, Fin(2, 5), Fin(32, 45)}
Directions ==
    {<<F0, F0, Fin(-1, 1)>>, <<F0, Fin(-3, 1), Fin(-4, 1)>>,
     <<Fin(-2, 1), Fin(-1, 1), Fin(-2, 1)>>, <<Fin(3, 1), F0, Fin(-4, 1)>>,
     <<F0, Fin(-2, 1), F0>>}
Vups == {y_axis, x_axis}
Vfovs == {90, 53}
FocusDists == {F1, Fin(10, 1)}
AspectRatios == {F1, Fin(3, 2)}

BasisIdle ==
    /\ o_pc = "idle" /\ o_w = y_axis /\ o_uvw = <<x_axis, y_axis, y_axis>>
    /\ o_coords = zeros /\ o_dir = zeros
    /\ c_direction = zeros /\ c_camera = Absent

\* CosinePDF::new(w)
NewCosinePDF ==
    /\ o_pc = "idle"
    /\ o_w' \in UnitWs
    /\ o_uvw' = build_from_w(o_w')
    /\ o_pc' = "built"
    /\ UNCHANGED <<o_coords, o_dir, c_direction, c_camera>>

\* CosinePDF::generate
Generate ==
    /\ o_pc = "built"
    /\ \E r1 \in quarter_turns, g \in CosineDraws :
          /\ o_coords' = random_cosine_direction(r1, g)
          /\ o_dir' = local_dir(o_uvw, random_cosine_direction(r1, g))
    /\ o_pc' = "generated"
    /\ UNCHANGED <<o_w, o_uvw, c_direction, c_camera>>

\* Camera::new
CameraNew ==
    /\ c_camera = Absent
    /\ c_direction' \in Directions
    /\ \E vup \in Vups, vfov \in Vfovs, focus_dist \in FocusDists,
          aspect_ratio \in AspectRatios :
          c_camera' = Camera_new(zeros, c_direction', vup, vfov, aspect_ratio,
                                 Fin(1, 10), focus_dist, F0, F1)
    /\ UNCHANGED <<o_pc, o_w, o_uvw, o_coords, o_dir>>

(***************************************************************************)
(* Calls of AxisAlignedBoundingBox::surrounding_box and hit, and of        *)
(* HittableList::bounding_box (aabb.rs:21-47, ray.rs:135-140)              *)
(***************************************************************************)
\* The boxes of the calls: a cube about the origin, a box behind it, a box
\* that overlaps the cube, the box of a point, and the box of a sphere of
\* negative radius (scene.rs:41), whose minimum is above its maximum.
Boxes ==
    {AxisAlignedBoundingBox(repeat(Fin(-1, 1)), repeat(F1)),
     AxisAlignedBoundingBox(<<F0, F0, Fin(-3, 1)>>,
                            <<Fin(2, 1), F1, Fin(-2, 1)>>),
     AxisAlignedBoundingBox(<<Fin(-2, 1), F0, F0>>,
                            <<F0, Fin(3, 1), F1>>),
     AxisAlignedBoundingBox(repeat(Fin(1, 2)), repeat(Fin(1, 2))),
     bounding_box(Sphere(<<Fin(-1, 1), F0, Fin(-1, 1)>>, Fin(-9, 20), grey),
                  F0, F1)}
OptionBoxes == Boxes \cup {NoBox}

\* The objects of the lists: spheres, a rectangle, and lists in lists.
ListObjects ==
    {Sphere(<<F0, F0, Fin(-2, 1)>>, F1, grey),
     Sphere(<<Fin(2, 1), F1, Fin(-3, 1)>>, Fin(1, 2), grey),
     HittableList(<<>>),
     HittableList(<<HittableList(<<>>)>>),
     HittableList(<<Sphere(zeros, F1, grey)>>)}
MaxList == 3
Lists == UNION {[1..n -> ListObjects] : n \in 0..MaxList}

\* The rays of the calls of hit: along an axis into and past the cube, from
\* inside it, within the plane of a face, and askew into and past it.
BoxRays ==
    {Ray(<<F0, F0, Fin(3, 1)>>, <<F0, F0, Fin(-1, 1)>>, F0),
     Ray(<<Fin(2, 1), F0, Fin(3, 1)>>, <<F0, F0, Fin(-1, 1)>>, F0),
     Ray(zeros, x_axis, F0),
     Ray(<<F1, F0, Fin(3, 1)>>, <<F0, F0, Fin(-1, 1)>>, F0),
     Ray(<<Fin(-3, 1), Fin(-5, 1), F0>>, <<Fin(3, 5), Fin(4, 5), F0>>, F0),
     Ray(<<Fin(-3, 1), Fin(-9, 1), F0>>, <<Fin(3, 5), Fin(4, 5), F0>>, F0),
     Ray(<<Fin(-4, 1), F0, Fin(-4, 1)>>, <<Fin(4, 5), F0, Fin(3, 5)>>, F0)}
BoxIntervals ==
    {<<Fin(1, 1000), PosInf>>, <<Fin(1, 1000), F1>>, <<Fin(2, 1), Fin(8, 1)>>}

BoxIdle ==
    /\ x_pc = "idle" /\ x_boxes = <<NoBox, NoBox, NoBox>> /\ x_sum = <<>>
    /\ x_list = <<>> /\ x_ray = Ray(zeros, x_axis, F0) /\ x_t_min = F0
    /\ x_t_max = F0 /\ x_ret = NoBox

\* surrounding_box on three optional boxes a, b, c: of a and b either way
\* round, of the three grouped either way, and of a with itself.
SurroundingBoxOf(a, b, c) ==
    /\ x_boxes' = <<a, b, c>>
    /\ x_sum' = [ab |-> surrounding_box(a, b), ba |-> surrounding_box(b, a),
                 ab_c |-> surrounding_box(surrounding_box(a, b), c),
                 a_bc |-> surrounding_box(a, surrounding_box(b, c)),
                 aa |-> surrounding_box(a, a)]

SurroundingBox ==
    /\ x_pc = "idle"
    /\ \E a \in OptionBoxes, b \in OptionBoxes, c \in OptionBoxes :
          SurroundingBoxOf(a, b, c)
    /\ x_pc' = "surrounded"
    /\ UNCHANGED <<x_list, x_ray, x_t_min, x_t_max, x_ret>>

\* HittableList::bounding_box(0., 1.)
ListBoundingBox ==
    /\ x_pc = "idle"
    /\ x_list' \in Lists
    /\ x_ret' = bounding_box(HittableList(x_list'), F0, F1)
    /\ x_pc' = "boxed"
    /\ UNCHANGED <<x_boxes, x_sum, x_ray, x_t_min, x_t_max>>

\* AxisAlignedBoundingBox::hit
BoxHit ==
    /\ x_pc = "idle"
    /\ \E a \in Boxes : x_boxes' = <<a, NoBox, NoBox>>
    /\ x_ray' \in BoxRays
    /\ \E i \in BoxIntervals : x_t_min' = i[1] /\ x_t_max' = i[2]
    /\ x_ret' = aabb_hit(x_boxes'[1], x_ray', x_t_min', x_t_max')
    /\ x_pc' = "hit"
    /\ UNCHANGED <<x_sum, x_list>>

(***************************************************************************)
(* The rays of one path (camera.rs:86-94, material.rs:34-195,              *)
(* renderer.rs:218, geo.rs:255-329)                                        *)
(***************************************************************************)
\* near_zero (material.rs:94-97)
near_zero(vec) == \A i \in 1..3 : FLt(FAbs(vec[i]), Fin(1, 100000000))

\* Lambertian::scatter (material.rs:34-41): the scattered ray, for the draw
\* coords of random_cosine_direction.
lambertian_scattered(ray_in, hit_record, coords) ==
    LET scatter_dir == local_dir(build_from_w(hit_record.normal), coords)
    IN  Ray(hit_record.point,
            IF near_zero(scatter_dir) THEN hit_record.normal ELSE scatter_dir,
            ray_in.time)

\* Dielectric::refract
refract(incident, normal, index_ratio) ==
    LET cos_theta == FMin(FNeg(dot(incident, normal)), F1)
        r_out_perp == VScale(index_ratio,
                             VAdd(incident, VScale(cos_theta, normal)))
        r_out_parallel ==
            VScale(FNeg(FSqrt(FAbs(FSub(F1, norm_squared(r_out_perp))))),
                   normal)
    IN  new_normalize(VAdd(r_out_perp, r_out_parallel))

\* Dielectric::reflectance; powf(5.) as the fifth power.
reflectance(cosine, ref_idx) ==
    LET r0 == FMul(FDiv(FSub(F1, ref_idx), FAdd(F1, ref_idx)),
                   FDiv(FSub(F1, ref_idx), FAdd(F1, ref_idx)))
        x  == FSub(F1, cosine)
    IN  FAdd(r0, FMul(FSub(F1, r0),
                      FMul(FMul(FMul(x, x), FMul(x, x)), x)))

\* Dielectric::scatter (material.rs:125-148): the scattered ray, for the
\* draw rand of get_rand().
dielectric_scattered(self, ray_in, hit_record, rand) ==
    LET refraction_ratio == IF hit_record.front_face
                            THEN FDiv(F1, self.index_of_refraction)
                            ELSE self.index_of_refraction
        cos_theta == FMin(FNeg(dot(ray_in.direction, hit_record.normal)), F1)
        sin_theta == FSqrt(FSub(F1, FMul(cos_theta, cos_theta)))
        cannot_refract == FGt(FMul(refraction_ratio, sin_theta), F1)
        direction ==
            IF cannot_refract
               \/ FGt(reflectance(cos_theta, refraction_ratio), rand)
            THEN reflect(ray_in.direction, hit_record.normal)
            ELSE refract(ray_in.direction, hit_record.normal,
                         refraction_ratio)
    IN  Ray(hit_record.point, direction, ray_in.time)

\* Isotropic::scatter (material.rs:189-194): the scattered ray, for the draw
\* on_sphere of rand_vec3_on_unit_sphere().
isotropic_scattered_at_time0(ray_in, hit_record, on_sphere) ==
    Ray(hit_record.point, on_sphere, F0)
isotropic_scattered(ray_in, hit_record, on_sphere) ==
    Ray(hit_record.point, on_sphere, ray_in.time)

\* The roots Dielectric::scatter takes are rational.
rational_root(x) ==
    /\ x.k = "fin" /\ x.n >= 0
    /\ isqrt(x.n) * isqrt(x.n) = x.n /\ isqrt(x.d) * isqrt(x.d) = x.d
rational_roots(self, ray_in, hit_record) ==
    \E c \in {FMin(FNeg(dot(ray_in.direction, hit_record.normal)), F1)} :
    \E s2 \in {FSub(F1, FMul(c, c))} :
    \E r \in {IF hit_record.front_face
              THEN FDiv(F1, self.index_of_refraction)
              ELSE self.index_of_refraction} :
        /\ rational_root(s2)
        /\ rational_root(FAbs(FSub(F1, FMul(FMul(r, r), s2))))

\* Camera::get_ray: the time is get_rand_range(time0, time1) of a shutter
\* open from 0 to 1.
ShutterTimes == {F0, Fin(1, 2), F1}
PathRays ==
    { Ray(origin, direction, time) :
        origin \in {<<F0, Fin(2, 1), F0>>},
        direction \in {<<F0, Fin(-1, 1), F0>>, <<Fin(4, 5), Fin(-3, 5), F0>>},
        time \in ShutterTimes }

\* The records world.hit can return for a ray: the surface is met at t = 1
\* with one of two outward normals.
OutwardNormals == {y_axis, x_axis}
PathRecords(r) ==
    { set_face_normal([NoHit EXCEPT !.some = TRUE, !.t = F1,
                                    !.point = at(r, F1)], r, outward) :
        outward \in OutwardNormals }

\* Draws of random_cosine_direction and of rand_vec3_on_unit_sphere.
PathCosineDraws ==
    { random_cosine_direction(F0, F0), random_cosine_direction(Fin(1, 4), Fin(2, 5)) }
OnUnitSphere == {<<F0, F0, F1>>, <<Fin(-3, 5), Fin(4, 5), F0>>}
PathOffsets == {<<F1, Fin(2, 1), Fin(-3, 1)>>}
PathDegrees == {90, 53}

\* The longest path followed.
MaxPath == 2

PathIdle ==
    /\ p_pc = "idle" /\ p_primary = Ray(zeros, y_axis, F0)
    /\ p_ray = Ray(zeros, y_axis, F0) /\ p_inner = Ray(zeros, y_axis, F0)
    /\ p_len = 0 /\ p_via = <<>>

\* The camera draws the primary ray.
PathInit ==
    /\ p_pc = "ray" /\ p_primary \in PathRays /\ p_ray = p_primary
    /\ p_inner = p_primary /\ p_len = 0 /\ p_via = <<>>

\* ray_color recurses on the scattered ray.
Follows(scattered, via) ==
    /\ p_len < MaxPath
    /\ p_ray' = scattered
    /\ p_inner' = scattered
    /\ p_len' = p_len + 1
    /\ p_via' = Append(p_via, via)
    /\ p_pc' = "ray"
    /\ UNCHANGED p_primary

ScatterLambertian ==
    /\ p_pc # "idle"
    /\ \E rec \in PathRecords(p_ray), coords \in PathCosineDraws :
         Follows(lambertian_scattered(p_ray, rec, coords), "Lambertian")

ScatterMetal ==
    /\ p_pc # "idle"
    /\ \E rec \in PathRecords(p_ray), s \in rand_vec3_in_unit_sphere :
       \E sr \in {scatter(Metal(grey, F0), p_ray, rec, s)} :
         /\ sr.some
         /\ Follows(sr.scattered, "Metal")

ScatterDielectric ==
    /\ p_pc # "idle"
    /\ \E rec \in PathRecords(p_ray), rand \in {F0, Fin(1, 2)} :
       \E self \in {Dielectric(Fin(4, 3))} :
         /\ rational_roots(self, p_ray, rec)
         /\ Follows(dielectric_scattered(self, p_ray, rec, rand),
                    "Dielectric")

ScatterIsotropic ==
    /\ p_pc # "idle"
    /\ \E rec \in PathRecords(p_ray), on_sphere \in OnUnitSphere :
         Follows(isotropic_scattered(p_ray, rec, on_sphere), "Isotropic")

\* ScatterType::Diffuse in ray_color: the direction is generated by the PDF.
BounceMixed ==
    /\ p_pc # "idle"
    /\ \E rec \in PathRecords(p_ray), coords \in PathCosineDraws :
         Follows(diffuse_scattered(rec,
                                   local_dir(build_from_w(rec.normal),
                                             coords), p_ray),
                 "Diffuse")

\* Translation::hit hands the moved ray to the object it wraps.
TranslationHit ==
    /\ p_pc = "ray"
    /\ \E offset \in PathOffsets :
         p_inner' = moved_ray(Translation(HittableList(<<>>), offset), p_inner)
    /\ p_pc' = "moved"
    /\ UNCHANGED <<p_primary, p_ray, p_len, p_via>>

\* RotationY::hit hands the rotated ray to the object it wraps.
RotationHit ==
    /\ p_pc \in {"ray", "moved"}
    /\ \E degree \in PathDegrees :
         p_inner' = rot_ray(RotationY(HittableList(<<>>), degree), p_inner)
    /\ p_pc' = "rotated"
    /\ UNCHANGED <<p_primary, p_ray, p_len, p_via>>

(***************************************************************************)
(* The windowed event loop (lib.rs:106-174, gui.rs:119-172,                *)
(* renderer.rs:41-54, 152-196)                                             *)
(***************************************************************************)
WIDTH  == 1920
HEIGHT == 1080

\* Scene::to_str (gui.rs:34-43)
to_str(self) ==
    CASE self = "RANDOM"      -> "random"
      [] self = "EARTH"       -> "earth"
      [] self = "TwoPsp"      -> "2psp"
      [] self = "TwoSp"       -> "2sp"
      [] self = "Simplelight" -> "simplelight"
      [] self = "Cornell"     -> "cornell"

\* Gui::new: the snapshot in pre is the clone taken while pre is None.
Gui_new ==
    LET cur == [window_open |-> FALSE, my_boolean |-> FALSE, scale |-> 10,
                save_img |-> FALSE, sample_count |-> 4, max_depth |-> 10,
                pre |-> None, scene |-> "EARTH"]
    IN  [cur EXCEPT !.pre = Some(cur)]

\* Gui::updated: the value returned and the Gui left behind.  The derived
\* PartialEq compares every field, pre included, after pre has been taken.
updated_compares_before_take(self) ==
    IF self.pre.some
    THEN [ret |-> self.pre.value # self,
          self |-> [self EXCEPT !.pre = Some([self EXCEPT !.pre = None])]]
    ELSE [ret |-> FALSE, self |-> self]

updated(self) ==
    LET taken == [self EXCEPT !.pre = None]
    IN  IF self.pre.some
        THEN [ret |-> self.pre.value # taken,
              self |-> [taken EXCEPT !.pre = Some(taken)]]
        ELSE [ret |-> FALSE, self |-> taken]

\* Framework::save_img, on the Gui: the screenshot is written and the flag
\* cleared.
save_img(gui) == IF gui.save_img THEN [gui EXCEPT !.save_img = FALSE] ELSE gui

\* Framework::resize, on the Gui.
framework_resize(gui, new_width, new_height) ==
    IF new_width > 0 /\ new_height > 0
    THEN [gui EXCEPT !.my_boolean = ~gui.my_boolean]
    ELSE gui

\* Gui::ui: what the widgets write for the input of one frame.
ui(self, input) ==
    [self EXCEPT !.save_img = self.save_img \/ input.clicked,
                 !.scene = input.scene, !.scale = input.scale,
                 !.sample_count = input.sample_count,
                 !.max_depth = input.max_depth]

\* Renderer::new
Renderer_new(new_width, new_height, scene_, camera) ==
    [width |-> new_width, height |-> new_height, actual_width |-> new_width, scale |-> 1,
     camera |-> camera, actual_height |-> new_height, scene |-> scene_,
     multisample |-> 4, max_depth |-> 10, dirty |-> TRUE]

\* Renderer::resize; Camera::rebuild is Camera::new of the camera's own
\* fields, with the new aspect ratio.
resize(self, new_width, new_height) ==
    [self EXCEPT !.actual_height = new_height, !.actual_width = new_width,
                 !.width = new_width \div self.scale,
                 !.height = new_height \div self.scale,
                 !.camera.aspect_ratio = Fin(new_width \div self.scale,
                                             new_height \div self.scale)]

\* Renderer::update_scale
update_scale(self, scale) ==
    IF scale # self.scale
    THEN resize([self EXCEPT !.scale = scale], self.actual_width,
                self.actual_height)
    ELSE self

\* Renderer::update_from_gui; file is the asset that earth loads.
update_from_gui_keeps_depth(self, gui, file) ==
    LET scaled == [update_scale(self, gui.scale) EXCEPT
                     !.multisample = gui.sample_count]
        name == to_str(gui.scene)
    IN  IF scaled.scene.label # name
        THEN [scaled EXCEPT
                !.camera = select_camera(scaled.camera.aspect_ratio, name),
                !.scene = select_scene(name, file)]
        ELSE scaled

update_from_gui(self, gui, file) ==
    LET scaled == [update_scale(self, gui.scale) EXCEPT
                     !.multisample = gui.sample_count,
                     !.max_depth = gui.max_depth]
        name == to_str(gui.scene)
    IN  IF scaled.scene.label # name
        THEN [scaled EXCEPT
                !.camera = select_camera(scaled.camera.aspect_ratio, name),
                !.scene = select_scene(name, file)]
        ELSE scaled

\* Renderer::draw, on the renderer: dirty is cleared.
draw(self) == [self EXCEPT !.dirty = FALSE]

\* The fields of a Gui other than its snapshot.
fields(gui) == [gui EXCEPT !.pre = None]
\* The four settings update_from_gui copies, on either side.
gui_settings(gui) ==
    [sample_count |-> gui.sample_count, max_depth |-> gui.max_depth,
     scale |-> gui.scale, scene |-> to_str(gui.scene)]
renderer_settings(self) ==
    [sample_count |-> self.multisample, max_depth |-> self.max_depth,
     scale |-> self.scale, scene |-> self.scene.label]

\* What the widgets can be set to, and the sizes the window is given.
UiScales  == {10, 5}
UiSamples == {4, 1}
UiDepths  == {10, 2}
UiScenes  == {"EARTH", "TwoSp"}
\* The widgets away from the values of Gui::new in an input.
moved(input) ==
    {f \in {"scene", "scale", "sample_count", "max_depth"} :
        input[f] # Gui_new[f]}
\* The inputs of a frame: no widget is away, one is, or all four are.
UiInputs ==
    {input \in [clicked : BOOLEAN, scene : UiScenes, scale : UiScales, sample_count : UiSamples, max_depth : UiDepths] :
        Cardinality(moved(input)) \in {0, 1, 4}}
WindowSizes == {<<WIDTH, HEIGHT>>, <<960, 540>>}
\* static/earthmap.jpg is in place.
LoopFile == CHOOSE file \in Files : file.format = "jpeg"

NoDraw == [dirty |-> FALSE, settings |-> gui_settings(Gui_new)]

LoopIdle ==
    /\ l_pc = "idle" /\ l_gui = Gui_new
    /\ l_renderer = Renderer_new(1, 1, two_spheres("2sp"), select_camera(F1, "2sp"))
    /\ l_ret = FALSE /\ l_last = fields(Gui_new) /\ l_drawn = NoDraw
    /\ l_changed = "none"

\* lib.rs:107-109: the framework and the renderer are built and the renderer
\* is updated from the new Gui.
LoopInit ==
    /\ l_pc = "events" /\ l_gui = Gui_new
    /\ l_renderer = update_from_gui(
                        Renderer_new(WIDTH, HEIGHT,
                                     create_random_scene("random"),
                                     select_camera(Fin(WIDTH, HEIGHT),
                                                   "random")),
                        Gui_new, LoopFile)
    /\ l_ret = FALSE /\ l_last = fields(Gui_new) /\ l_drawn = NoDraw
    /\ l_changed = "none"

\* How a step changed the Gui.
change(before, after) ==
    IF gui_settings(after) # gui_settings(before) THEN "settings"
    ELSE IF fields(after) # fields(before) THEN "other"
    ELSE "none"

\* input.update(&event) is true (lib.rs:114-138): the screenshot is saved,
\* a resize of the window is handled, and a redraw is requested.
MainEventsCleared ==
    /\ l_pc = "events"
    /\ \E resized \in {None} \cup {Some(size) : size \in WindowSizes} :
       \E saved \in {save_img(l_gui)} :
         IF resized.some
         THEN /\ l_renderer' = resize(l_renderer, resized.value[1],
                                      resized.value[2])
              /\ l_gui' = framework_resize(saved, resized.value[1],
                                           resized.value[2])
         ELSE /\ l_renderer' = l_renderer
              /\ l_gui' = saved
    /\ l_changed' = change(l_gui, l_gui')
    /\ l_pc' = "redraw"
    /\ UNCHANGED <<l_ret, l_last, l_drawn>>

\* Event::RedrawRequested: renderer.draw(pixels.get_frame())
Draw ==
    /\ l_pc = "redraw"
    /\ l_drawn' = [dirty |-> l_renderer.dirty,
                   settings |-> renderer_settings(l_renderer)]
    /\ l_renderer' = draw(l_renderer)
    /\ l_pc' = "drawn"
    /\ UNCHANGED <<l_gui, l_ret, l_last, l_changed>>

\* renderer.dirty = framework.gui.updated()
Updated ==
    /\ l_pc = "drawn"
    /\ \E r \in {updated(l_gui)} :
         /\ l_gui' = r.self
         /\ l_ret' = r.ret
         /\ l_renderer' = [l_renderer EXCEPT !.dirty = r.ret]
    /\ l_last' = fields(l_gui)
    /\ l_pc' = "updated"
    /\ UNCHANGED <<l_drawn, l_changed>>

\* framework.prepare(&window): egui runs Gui::ui on the input of the frame.
Prepare ==
    /\ l_pc = "updated"
    /\ \E input \in UiInputs : l_gui' = ui(l_gui, input)
    /\ l_changed' = change(l_gui, l_gui')
    /\ l_pc' = "prepared"
    /\ UNCHANGED <<l_renderer, l_ret, l_last, l_drawn>>

\* if renderer.dirty { renderer.update_from_gui(&framework.gui, &mut pixels) }
UpdateFromGui ==
    /\ l_pc = "prepared"
    /\ l_renderer' = IF l_renderer.dirty
                     THEN update_from_gui(l_renderer, l_gui, LoopFile)
                     ELSE l_renderer
    /\ l_pc' = "events"
    /\ UNCHANGED <<l_gui, l_ret, l_last, l_drawn, l_changed>>

vars == <<drawVars, pixelVars, traceVars, geoVars, bvhVars, buildVars, noiseVars, basisVars, boxVars, pathVars, loopVars>>

DrawIdleWith(depth, colour) ==
    /\ width = 1 /\ height = 1 /\ multisample = 1 /\ max_depth = depth
    /\ background = colour /\ dirty = FALSE /\ frame = <<>>
    /\ pc = "idle" /\ rowx = <<>> /\ writes = <<>> /\ writers = <<>>
    /\ traced = 0 /\ lastcall = NoCall /\ draws = 0 /\ returned = "none"

DrawIdle == DrawIdleWith(1, zeros)

Init == DrawInit /\ PixelIdle /\ TraceIdle /\ GeoIdle /\ BVHIdle /\ BuildIdle /\ NoiseIdle /\ BasisIdle /\ BoxIdle /\ PathIdle /\ LoopIdle

Next ==
    \/ DrawSkip /\ UNCHANGED <<pixelVars, traceVars, geoVars, bvhVars, buildVars, noiseVars, basisVars, boxVars, pathVars, loopVars>>
    \/ DrawBegin /\ UNCHANGED <<pixelVars, traceVars, geoVars, bvhVars, buildVars, noiseVars, basisVars, boxVars, pathVars, loopVars>>
    \/ \E c \in DOMAIN rowx : RenderPixel(c) /\ UNCHANGED <<pixelVars, traceVars, geoVars, bvhVars, buildVars, noiseVars, basisVars, boxVars, pathVars, loopVars>>
    \/ DrawEnd /\ UNCHANGED <<pixelVars, traceVars, geoVars, bvhVars, buildVars, noiseVars, basisVars, boxVars, pathVars, loopVars>>
    \/ SetDirty /\ UNCHANGED <<pixelVars, traceVars, geoVars, bvhVars, buildVars, noiseVars, basisVars, boxVars, pathVars, loopVars>>

Spec == Init /\ [][Next]_vars

InitPixel ==
    PixelInit /\ DrawIdle /\ TraceIdle /\ GeoIdle /\ BVHIdle /\ BuildIdle /\ NoiseIdle /\ BasisIdle /\ BoxIdle /\ PathIdle /\ LoopIdle

NextPixel ==
    \/ TakeSample /\ UNCHANGED <<drawVars, traceVars, geoVars, bvhVars, buildVars, noiseVars, basisVars, boxVars, pathVars, loopVars>>
    \/ FinishPixel /\ UNCHANGED <<drawVars, traceVars, geoVars, bvhVars, buildVars, noiseVars, basisVars, boxVars, pathVars, loopVars>>

SpecPixel == InitPixel /\ [][NextPixel]_vars

InitTrace ==
    /\ scene \in Scenes
    /\ \E d \in 0..MaxDepth : DrawIdleWith(d, scene.background)
    /\ PixelIdle
    /\ GeoIdle /\ BVHIdle /\ BuildIdle
    /\ TraceInit /\ NoiseIdle /\ BasisIdle /\ BoxIdle /\ PathIdle /\ LoopIdle

NextTrace ==
    \/ ReturnBlack /\ UNCHANGED <<drawVars, pixelVars, geoVars, bvhVars, buildVars, noiseVars, basisVars, boxVars, pathVars, loopVars>>
    \/ ReturnBackground /\ UNCHANGED <<drawVars, pixelVars, geoVars, bvhVars, buildVars, noiseVars, basisVars, boxVars, pathVars, loopVars>>
    \/ ReturnEmitted /\ UNCHANGED <<drawVars, pixelVars, geoVars, bvhVars, buildVars, noiseVars, basisVars, boxVars, pathVars, loopVars>>
    \/ BounceDiffuse /\ UNCHANGED <<drawVars, pixelVars, geoVars, bvhVars, buildVars, noiseVars, basisVars, boxVars, pathVars, loopVars>>
    \/ BounceSpecular /\ UNCHANGED <<drawVars, pixelVars, geoVars, bvhVars, buildVars, noiseVars, basisVars, boxVars, pathVars, loopVars>>
    \/ Unwind /\ UNCHANGED <<drawVars, pixelVars, geoVars, bvhVars, buildVars, noiseVars, basisVars, boxVars, pathVars, loopVars>>
    \/ Finish /\ UNCHANGED <<drawVars, pixelVars, geoVars, bvhVars, buildVars, noiseVars, basisVars, boxVars, pathVars, loopVars>>

\* One call of ray_color from draw.
SpecTrace == InitTrace /\ [][NextTrace]_vars

InitGeo ==
    DrawIdle /\ PixelIdle /\ TraceIdle /\ BVHIdle /\ BuildIdle /\ GeoInit /\ NoiseIdle /\ BasisIdle /\ BoxIdle /\ PathIdle /\ LoopIdle

NextGeo ==
    \/ Hit /\ UNCHANGED <<drawVars, pixelVars, traceVars, bvhVars, buildVars, noiseVars, basisVars, boxVars, pathVars, loopVars>>
    \/ MediumHit /\ UNCHANGED <<drawVars, pixelVars, traceVars, bvhVars, buildVars, noiseVars, basisVars, boxVars, pathVars, loopVars>>

SpecGeo == InitGeo /\ [][NextGeo]_vars

InitBVH ==
    DrawIdle /\ PixelIdle /\ TraceIdle /\ GeoIdle /\ BuildIdle /\ BVHInit /\ NoiseIdle /\ BasisIdle /\ BoxIdle /\ PathIdle /\ LoopIdle

NextBVH ==
    \/ BVHSplit /\ UNCHANGED <<drawVars, pixelVars, traceVars, geoVars, buildVars, noiseVars, basisVars, boxVars, pathVars, loopVars>>
    \/ BVHJoin /\ UNCHANGED <<drawVars, pixelVars, traceVars, geoVars, buildVars, noiseVars, basisVars, boxVars, pathVars, loopVars>>
    \/ BVHHit /\ UNCHANGED <<drawVars, pixelVars, traceVars, buildVars, noiseVars, basisVars, boxVars, pathVars, loopVars>>

SpecBVH == InitBVH /\ [][NextBVH]_vars

InitBuild ==
    DrawIdle /\ PixelIdle /\ TraceIdle /\ GeoIdle /\ BVHIdle /\ BuildInit /\ NoiseIdle /\ BasisIdle /\ BoxIdle /\ PathIdle /\ LoopIdle

NextBuild ==
    \/ SelectScene /\ UNCHANGED <<drawVars, pixelVars, traceVars, geoVars, bvhVars, noiseVars, basisVars, boxVars, pathVars, loopVars>>
    \/ NewImageTexture /\ UNCHANGED <<drawVars, pixelVars, traceVars, geoVars, bvhVars, noiseVars, basisVars, boxVars, pathVars, loopVars>>
    \/ TextureValue /\ UNCHANGED <<drawVars, pixelVars, traceVars, geoVars, bvhVars, noiseVars, basisVars, boxVars, pathVars, loopVars>>
    \/ NewMetal /\ UNCHANGED <<drawVars, pixelVars, traceVars, geoVars, bvhVars, noiseVars, basisVars, boxVars, pathVars, loopVars>>

SpecBuild == InitBuild /\ [][NextBuild]_vars

InitNoise ==
    DrawIdle /\ PixelIdle /\ TraceIdle /\ GeoIdle /\ BVHIdle /\ BuildIdle /\ NoiseIdle /\ BasisIdle /\ BoxIdle /\ PathIdle /\ LoopIdle

NextNoise ==
    \/ NewPerlin /\ UNCHANGED <<drawVars, pixelVars, traceVars, geoVars, bvhVars, buildVars, basisVars, boxVars, pathVars, loopVars>>
    \/ TurbCall /\ UNCHANGED <<drawVars, pixelVars, traceVars, geoVars, bvhVars, buildVars, basisVars, boxVars, pathVars, loopVars>>
    \/ TurbRound /\ UNCHANGED <<drawVars, pixelVars, traceVars, geoVars, bvhVars, buildVars, basisVars, boxVars, pathVars, loopVars>>
    \/ TurbReturn /\ UNCHANGED <<drawVars, pixelVars, traceVars, geoVars, bvhVars, buildVars, basisVars, boxVars, pathVars, loopVars>>

SpecNoise == InitNoise /\ [][NextNoise]_vars

InitBasis ==
    DrawIdle /\ PixelIdle /\ TraceIdle /\ GeoIdle /\ BVHIdle /\ BuildIdle /\ NoiseIdle /\ BasisIdle /\ BoxIdle /\ PathIdle /\ LoopIdle

NextBasis ==
    \/ NewCosinePDF /\ UNCHANGED <<drawVars, pixelVars, traceVars, geoVars, bvhVars, buildVars, noiseVars, boxVars, pathVars, loopVars>>
    \/ Generate /\ UNCHANGED <<drawVars, pixelVars, traceVars, geoVars, bvhVars, buildVars, noiseVars, boxVars, pathVars, loopVars>>
    \/ CameraNew /\ UNCHANGED <<drawVars, pixelVars, traceVars, geoVars, bvhVars, buildVars, noiseVars, boxVars, pathVars, loopVars>>

SpecBasis == InitBasis /\ [][NextBasis]_vars

InitBox ==
    DrawIdle /\ PixelIdle /\ TraceIdle /\ GeoIdle /\ BVHIdle /\ BuildIdle /\ NoiseIdle /\ BasisIdle /\ BoxIdle /\ PathIdle /\ LoopIdle

NextBox ==
    \/ SurroundingBox /\ UNCHANGED <<drawVars, pixelVars, traceVars, geoVars, bvhVars, buildVars, noiseVars, basisVars, pathVars, loopVars>>
    \/ ListBoundingBox /\ UNCHANGED <<drawVars, pixelVars, traceVars, geoVars, bvhVars, buildVars, noiseVars, basisVars, pathVars, loopVars>>
    \/ BoxHit /\ UNCHANGED <<drawVars, pixelVars, traceVars, geoVars, bvhVars, buildVars, noiseVars, basisVars, pathVars, loopVars>>

SpecBox == InitBox /\ [][NextBox]_vars

InitPath ==
    DrawIdle /\ PixelIdle /\ TraceIdle /\ GeoIdle /\ BVHIdle /\ BuildIdle /\ NoiseIdle /\ BasisIdle /\ BoxIdle /\ PathInit /\ LoopIdle

NextPath ==
    \/ ScatterLambertian /\ UNCHANGED <<drawVars, pixelVars, traceVars, geoVars, bvhVars, buildVars, noiseVars, basisVars, boxVars, loopVars>>
    \/ ScatterMetal /\ UNCHANGED <<drawVars, pixelVars, traceVars, geoVars, bvhVars, buildVars, noiseVars, basisVars, boxVars, loopVars>>
    \/ ScatterDielectric /\ UNCHANGED <<drawVars, pixelVars, traceVars, geoVars, bvhVars, buildVars, noiseVars, basisVars, boxVars, loopVars>>
    \/ ScatterIsotropic /\ UNCHANGED <<drawVars, pixelVars, traceVars, geoVars, bvhVars, buildVars, noiseVars, basisVars, boxVars, loopVars>>
    \/ BounceMixed /\ UNCHANGED <<drawVars, pixelVars, traceVars, geoVars, bvhVars, buildVars, noiseVars, basisVars, boxVars, loopVars>>
    \/ TranslationHit /\ UNCHANGED <<drawVars, pixelVars, traceVars, geoVars, bvhVars, buildVars, noiseVars, basisVars, boxVars, loopVars>>
    \/ RotationHit /\ UNCHANGED <<drawVars, pixelVars, traceVars, geoVars, bvhVars, buildVars, noiseVars, basisVars, boxVars, loopVars>>

SpecPath == InitPath /\ [][NextPath]_vars

InitLoop ==
    DrawIdle /\ PixelIdle /\ TraceIdle /\ GeoIdle /\ BVHIdle /\ BuildIdle /\ NoiseIdle /\ BasisIdle /\ BoxIdle /\ PathIdle /\ LoopInit

NextLoop ==
    \/ MainEventsCleared /\ UNCHANGED <<drawVars, pixelVars, traceVars, geoVars, bvhVars, buildVars, noiseVars, basisVars, boxVars, pathVars>>
    \/ Draw /\ UNCHANGED <<drawVars, pixelVars, traceVars, geoVars, bvhVars, buildVars, noiseVars, basisVars, boxVars, pathVars>>
    \/ Updated /\ UNCHANGED <<drawVars, pixelVars, traceVars, geoVars, bvhVars, buildVars, noiseVars, basisVars, boxVars, pathVars>>
    \/ Prepare /\ UNCHANGED <<drawVars, pixelVars, traceVars, geoVars, bvhVars, buildVars, noiseVars, basisVars, boxVars, pathVars>>
    \/ UpdateFromGui /\ UNCHANGED <<drawVars, pixelVars, traceVars, geoVars, bvhVars, buildVars, noiseVars, basisVars, boxVars, pathVars>>

SpecLoop == InitLoop /\ [][NextLoop]_vars

\* The loop polls: the handler of every event runs to its end and
\* window.request_redraw() is answered by a RedrawRequested event.
SpecLoopFair == SpecLoop /\ WF_vars(NextLoop)

(***************************************************************************)
(* Claims about draw                                                       *)
(***************************************************************************)
\* C1: a draw entered with dirty false leaves the frame buffer unchanged,
\* traces no ray and returns at once; a draw entered with dirty true sets
\* dirty to false, so the next draw with no write to dirty in between is
\* such a no-op.
C1_CleanDrawIsNoop ==
    [][ draws' # draws =>
          /\ ~dirty'
          /\ ~dirty => /\ frame' = frame
                       /\ traced' = traced
                       /\ writes' = writes
                       /\ pc' = "idle" ]_vars

\* A second draw returned early after a first one filled the buffer.
C1_Witness ==
    /\ draws = 2
    /\ returned = "skipped"
    /\ \E i \in 1..Len(frame) : writes[i] = 1 /\ frame[i] = alpha

\* C2: during one draw every byte is written at most once and only by the
\* worker of the row it lies in (row r is bytes 4*W*r+1 .. 4*W*(r+1)), and
\* when draw has returned each of the W*H pixels has been written exactly
\* once as three bytes and 255.
C2_RowsDisjointAndComplete ==
    /\ \A i \in 1..Len(frame) :
          /\ writes[i] <= 1
          /\ Cardinality(writers[i]) <= 1
          /\ \A c \in writers[i] : (i - 1) \div (4 * width) = c
    /\ returned = "rendered" =>
          \A p \in 0..width * height - 1 :
             /\ \A j \in 1..4 : writes[4 * p + j] = 1
             /\ \A j \in 1..3 : frame[4 * p + j] \in 0..255
             /\ frame[4 * p + 4] = 255

\* A 2x2 draw has returned and the row rendered last was not the one a
\* sequential pass over the reversed rows ends with.
C2_Witness ==
    /\ returned = "rendered"
    /\ width = 2 /\ height = 2
    /\ lastcall.r = 1

\* C3: buffer row r is rendered with y = H-1-r (the last row with y = 0),
\* t = (y+U)/(H-1) and s = (x+U)/(W-1) with U the sample's offset in [0,1),
\* and distinct rows get distinct y.
C3_RowsReversed ==
    /\ lastcall.r >= 0 =>
          /\ lastcall.y = height - 1 - lastcall.r
          /\ lastcall.r = height - 1 => lastcall.y = 0
          /\ FLe(F0, lastcall.xo) /\ FLt(lastcall.xo, F1)
          /\ FLe(F0, lastcall.yo) /\ FLt(lastcall.yo, F1)
          /\ lastcall.uv[1] = FDiv(FAdd(Fin(lastcall.x, 1), lastcall.xo),
                                   Fin(width - 1, 1))
          /\ lastcall.uv[2] = FDiv(FAdd(Fin(lastcall.y, 1), lastcall.yo),
                                   Fin(height - 1, 1))
    /\ \A c1, c2 \in DOMAIN rowx :
          c1 # c2 => rev_enumerate(c1, nchunks(Len(frame)))
                       # rev_enumerate(c2, nchunks(Len(frame)))

\* The last buffer row of a taller image was sampled with y = 0 and a
\* non-zero offset.
C3_Witness ==
    /\ height >= 2
    /\ lastcall.r = height - 1
    /\ lastcall.y = 0
    /\ lastcall.yo = Fin(1, 2)
    /\ lastcall.uv[2] = Fin(1, 2 * (height - 1))

(***************************************************************************)
(* Claims about the pixel accumulator                                      *)
(***************************************************************************)
\* C8: each NaN component of a per-sample radiance becomes 0, each +infinity
\* becomes 1 and each finite component is kept, so every addend of the sum
\* that is averaged is finite.
C8_SanitisedBeforeAveraging ==
    /\ Len(px_addends) = Len(px_samples)
    /\ \A i \in 1..Len(px_samples) : \A k \in 1..3 :
          LET c == px_samples[i][k]
              a == px_addends[i][k]
          IN  /\ is_nan(c) => a = F0
              /\ c = PosInf => a = F1
              /\ IsFin(c) => a = c
              /\ IsFin(a)
    /\ px_pc = "done" =>
          px_avg = VDivS(fold(zeros, px_addends), Fin(px_n, 1))

\* A pixel was finished from two samples of which one had a NaN and an
\* infinite component.
C8_Witness ==
    /\ px_pc = "done"
    /\ px_n = 2
    /\ px_samples[1] = <<NaN, Fin(1, 4), PosInf>>
    /\ px_samples[2] = <<Fin(3, 1), Fin(1, 4), F0>>
    /\ px_avg = <<Fin(3, 2), Fin(1, 4), Fin(1, 2)>>

\* round(clamp(sqrt(c), 0, 0.999) * 256) as an 8-bit value (255 at most),
\* for a finite c.  round(256 * s) is floor((floor(sqrt(4 * 65536 * s * s))
\* + 1) / 2); it is 256 from s = 255.5/256 on, which is below the clamp, so
\* with the byte at most 255 the clamp changes nothing.
RoundedTransform(c) ==
    IF Sgn(c) <= 0 THEN 0
    ELSE IF c.n >= c.d THEN 255
    ELSE LET r == (isqrt(MulDivFloor(4 * 65536, c.n, c.d)) + 1) \div 2
         IN  IF r > 255 THEN 255 ELSE r

\* C9 as claimed: each byte is the square root of the average, clamped to
\* [0, 0.999], times 256, rounded to nearest.
C9_Original ==
    px_pc = "done" =>
       \A k \in 1..3 : px_out[k] = RoundedTransform(px_avg[k])

\* C9 as amended: each byte is floor(256 * sqrt(clamp(c, 0, 0.999))): the
\* average c is clamped first, the product is truncated, and the byte lies
\* in 0..255.
C9_TruncatedTransform ==
    px_pc = "done" =>
       /\ Len(px_out) = 4
       /\ \A k \in 1..3 :
             LET c == FMin(FMax(px_avg[k], F0), Fin(999, 1000))
                 b == px_out[k]
             IN  /\ b \in 0..255
                 /\ b * b <= MulDivFloor(65536, c.n, c.d)
                 /\ MulDivFloor(65536, c.n, c.d) < (b + 1) * (b + 1)

\* A finished pixel with the average 1/10000 in one channel (256 * sqrt is
\* 2.56, written as 2) and an average above the clamp in another (255).
C9_Witness ==
    /\ px_pc = "done"
    /\ px_avg[1] = Fin(1, 10000) /\ px_out[1] = 2
    /\ px_avg[3] = F1 /\ px_out[3] = 255
(***************************************************************************)
(* Claims about ray_color                                                  *)
(***************************************************************************)
\* Steps ray_color can still take: each step makes it smaller.
Measure ==
    CASE tr_pc = "call"   -> 2 * tr_depth + Len(tr_stack) + 3
      [] tr_pc = "return" -> Len(tr_stack) + 1
      [] OTHER            -> 0

\* C4: ray_color returns (0,0,0) at depth 0; every recursive call is made
\* with the depth one smaller, one call per bounce, so at most max_depth
\* calls are nested and the computation ends after boundedly many steps.
C4_DepthBoundsRecursion ==
    [][ /\ Measure' < Measure
        /\ tr_pc = "call" /\ tr_depth = 0 =>
             tr_pc' = "return" /\ tr_value' = zeros
        /\ tr_pc = "call" /\ tr_pc' = "call" =>
             /\ tr_depth' = tr_depth - 1
             /\ tr_calls' = tr_calls + 1
             /\ Len(tr_stack') = Len(tr_stack) + 1
        /\ tr_pc' # "call" => tr_calls' = tr_calls
        /\ Len(tr_stack') <= max_depth
        /\ tr_calls' <= max_depth + 1 ]_vars

C4_Witness ==
    /\ tr_pc = "done"
    /\ max_depth = MaxDepth
    /\ tr_calls = max_depth + 1
    /\ tr_obs.step = "unwind"

\* The value of the PDF ray_color samples from, for the direction w drawn at
\* the hit the observation records.
mix_value_at(o) ==
    IF Len(scene.lights.objects) = 0
    THEN cosine_value(o.rec.normal, o.w)
    ELSE mix_value(cosine_value(o.rec.normal, o.w),
                   pdf_val_of(scene.lights, o.rec.point, o.w))

cos_at(o) == FMax(dot(o.rec.normal, o.w), Fin(1, 10000))

\* C5 as stated: a diffuse bounce returns
\* e + attenuation * radiance(r', d-1) * cos * 2*pi / p.
C5_Original ==
    tr_obs.step = "unwind" /\ tr_obs.s_type = "Diffuse" =>
      tr_obs.value =
        VAdd(tr_obs.emitted,
             VDivS(VScale(FMul(cos_at(tr_obs), FMul(Fin(2, 1), PI)),
                          component_mul(tr_obs.attenuation, tr_obs.child)),
                   mix_value_at(tr_obs)))

\* C5 as amended: a diffuse bounce returns
\* e + attenuation * radiance(r', d-1) * cos / (2*pi * p): the scattered
\* radiance is divided by p / cos * pi * 2.
C5_DiffuseRadiance ==
    tr_obs.step = "unwind" /\ tr_obs.s_type = "Diffuse" =>
      tr_obs.value =
        VAdd(tr_obs.emitted,
             VDivS(VScale(cos_at(tr_obs),
                          component_mul(tr_obs.attenuation, tr_obs.child)),
                   FMul(FMul(Fin(2, 1), PI), mix_value_at(tr_obs))))

C5_Witness ==
    /\ tr_obs.step = "unwind" /\ tr_obs.s_type = "Diffuse"
    /\ tr_obs.child = Sky
    /\ tr_obs.w = <<Fin(-3, 5), Fin(4, 5), F0>>
    /\ tr_obs.value = <<Fin(49, 1760), Fin(7, 220), Fin(7, 176)>>

\* C6: with no lights a diffuse bounce draws its direction from the cosine
\* PDF and evaluates that PDF alone; no mixture is built and neither
\* HittableList::random nor HittableList::pdf_val runs on the empty list.
C6_CosineOnlyWithoutLights ==
    Len(scene.lights.objects) = 0 =>
      /\ tr_pc # "panic"
      /\ tr_obs.s_type = "Diffuse" =>
           /\ tr_obs.mixed = "cosine"
           /\ ~tr_obs.list_random
           /\ ~tr_obs.list_pdf_val
           /\ tr_obs.p = cosine_value(tr_obs.rec.normal, tr_obs.w)
           /\ \E r1 \in quarter_turns, g \in square_draws :
                tr_obs.w = cosine_generate(tr_obs.rec.normal, r1, g)

C6_Witness ==
    /\ Len(scene.lights.objects) = 0
    /\ tr_obs.step = "bounce"
    /\ tr_obs.s_type = "Diffuse"
    /\ tr_obs.w = <<Fin(3, 5), Fin(4, 5), F0>>
    /\ tr_obs.p = Fin(8, 5)

\* C7: a call of ray_color with depth >= 1 whose ray hits nothing in the
\* world within [0.001, inf) returns the background of the scene; in a scene
\* that Scene::new builds from an empty world and no lights every such call
\* does.
C7_MissReturnsBackground ==
    /\ ( /\ tr_pc = "return"
         /\ tr_obs.depth >= 1
         /\ ~hit(scene.world, tr_obs.ray, Fin(1, 1000), PosInf).some )
       => tr_value = scene.background
    /\ ( /\ scene.world.objects = <<HittableList(<<>>)>>
         /\ tr_pc = "done"
         /\ max_depth >= 1 )
       => tr_value = scene.background

C7_Witness ==
    /\ tr_pc = "return"
    /\ tr_obs.step = "miss"
    /\ tr_stack # <<>>
    /\ Len(scene.world.objects) > 1
    /\ tr_value = Sky

\* C10 as stated: a DiffuseLight never scatters, and it emits the value of
\* its texture at (uv, point) when the hit is on the front face and black
\* when it is not.
C10_LightEmitsFrontOnly ==
    tr_obs.step # "none" /\ tr_obs.rec.material.kind = "DiffuseLight" =>
      /\ tr_obs.step = "noscatter"
      /\ tr_obs.emitted =
           IF tr_obs.rec.front_face
           THEN texture_value(tr_obs.rec.material, tr_obs.rec.uv,
                              tr_obs.rec.point)
           ELSE zeros

(***************************************************************************)
(* Claims about the primitives                                             *)
(***************************************************************************)
\* The outward normal of a sphere or rectangle at a point of its surface.
outward_at(self, point) ==
    IF self.kind = "Sphere" THEN VDivS(VSub(point, self.center0), self.radius)
    ELSE [i \in 1..3 |-> IF i = get_indexes(self.axis)[3] THEN F1 ELSE F0]

\* C15: a hit of a sphere or rectangle has front_face = (dot(ray.direction,
\* outward) < 0) and normal = outward when front_face, otherwise -outward;
\* and every hit of a sphere, rectangle or cuboid, or of a Translation or
\* RotationY around them, has dot(normal, ray.direction) <= 0 for the ray
\* of the call.
C15_NormalOpposesRay ==
    (g_pc = "done" /\ g_rec.some /\ g_self.kind # "ConstantMedium") =>
        /\ FLe(dot(g_rec.normal, g_ray.direction), F0)
        /\ g_self.kind \in {"Sphere", "Rect"} =>
             /\ g_rec.front_face =
                  FLt(dot(g_ray.direction, outward_at(g_self, g_rec.point)),
                      F0)
             /\ g_rec.normal =
                  IF g_rec.front_face THEN outward_at(g_self, g_rec.point)
                  ELSE VNeg(outward_at(g_self, g_rec.point))

\* A ray that leaves a turned cuboid through a face hits it from the back: the
\* normal of the record is the flipped outward normal, turned with the cuboid.
C15_Witness ==
    /\ g_pc = "done" /\ g_rec.some /\ g_self.kind = "RotationY"
    /\ ~g_rec.front_face
    /\ FLt(dot(g_rec.normal, g_ray.direction), F0)

\* The parameters at which the claims look for the points of a ray on a
\* surface: the twentieths from -GridReach to GridReach.
GridReach == 3
Grid == {Fin(n, 20) : n \in -(20 * GridReach)..(20 * GridReach)}

\* A point lies on the surface of a sphere, rectangle or cuboid.
on_boundary(self, p) ==
    CASE self.kind = "Sphere" ->
           norm_squared(VSub(p, self.center0))
             = FMul(self.radius, self.radius)
      [] self.kind = "Rect" ->
           /\ p[get_indexes(self.axis)[3]] = self.k
           /\ \A i \in {get_indexes(self.axis)[1], get_indexes(self.axis)[2]} :
                 FLe(self.p0[i], p[i]) /\ FLe(p[i], self.p1[i])
      [] self.kind = "Cuboid" ->
           /\ \A i \in 1..3 : /\ FLe(self.cuboid_min[i], p[i])
                              /\ FLe(p[i], self.cuboid_max[i])
           /\ \E i \in 1..3 : p[i] \in {self.cuboid_min[i], self.cuboid_max[i]}

crossings(self, ray) == {t \in Grid : on_boundary(self, at(ray, t))}

\* The least element of a non-empty set of finite values.
least(ts) == CHOOSE t \in ts : \A u \in ts : FLe(t, u)
greatest(ts) == CHOOSE t \in ts : \A u \in ts : FLe(u, t)

\* Sphere.hit returns the nearest intersection in [t_min, t_max], with the
\* normal opposing the ray.
NearestRoot ==
    (g_pc = "done" /\ g_self.kind = "Sphere") =>
        LET roots == {t \in crossings(g_self, g_ray) :
                         FLe(g_t_min, t) /\ FLe(t, g_t_max)}
        IN  /\ g_rec.some = (roots # {})
            /\ g_rec.some =>
                 /\ g_rec.t = least(roots)
                 /\ g_rec.point = at(g_ray, g_rec.t)
                 /\ FLe(dot(g_rec.normal, g_ray.direction), F0)

\* The call of the boundary scenario on a sphere of the given radius.
Scenario(radius) ==
    /\ g_pc = "done"
    /\ g_self = Sphere(<<F0, F0, FNeg(F1)>>, radius, grey)
    /\ g_ray = Ray(zeros, <<F0, F0, FNeg(F1)>>, F0)
    /\ g_t_min = Fin(1, 1000) /\ g_t_max = PosInf

\* C16 as claimed: Sphere.hit returns the nearest intersection in
\* [t_min, t_max] with the normal opposing the ray, and in the scenario with
\* the unit sphere the hit is at t = 0.5, point (0,0,-0.5), normal (0,0,1),
\* front_face = true.
C16_Original ==
    /\ NearestRoot
    /\ Scenario(F1) =>
         /\ g_rec.some /\ g_rec.t = Fin(1, 2)
         /\ g_rec.point = <<F0, F0, Fin(-1, 2)>>
         /\ g_rec.normal = <<F0, F0, F1>>
         /\ g_rec.front_face

\* C16 as amended: Sphere.hit returns the nearest intersection in
\* [t_min, t_max] with the normal opposing the ray; in the scenario the ray
\* starts on the unit sphere, the root 0 is below t_min, and the hit is at
\* t = 2, point (0,0,-2), normal (0,0,1), front_face = false; t = 0.5, point
\* (0,0,-0.5), normal (0,0,1), front_face = true is the hit of the sphere of
\* radius 0.5 with the same centre.
C16_SphereHit ==
    /\ NearestRoot
    /\ Scenario(F1) =>
         /\ g_rec.some /\ g_rec.t = Fin(2, 1)
         /\ g_rec.point = <<F0, F0, Fin(-2, 1)>>
         /\ g_rec.normal = <<F0, F0, F1>>
         /\ ~g_rec.front_face
    /\ Scenario(Fin(1, 2)) =>
         /\ g_rec.some /\ g_rec.t = Fin(1, 2)
         /\ g_rec.point = <<F0, F0, Fin(-1, 2)>>
         /\ g_rec.normal = <<F0, F0, F1>>
         /\ g_rec.front_face

C16_Witness == Scenario(F1) /\ g_rec.some /\ g_rec.t = Fin(2, 1)

\* C17: Translation(inner, D).hit returns a hit iff inner.hit on the ray
\* with origin shifted by -D does, with the same t, normal, front_face, uv
\* and material and the point shifted by +D, which is ray.at(t) of the ray
\* of the call; its bounding_box is inner's shifted by D, None iff inner's
\* is None.
C17_TranslationShifts ==
    (g_pc = "done" /\ g_self.kind = "Translation") =>
        LET inner == hit(g_self.obj,
                         Ray(VSub(g_ray.origin, g_self.offset),
                             g_ray.direction, g_ray.time),
                         g_t_min, g_t_max)
            inner_box == bounding_box(g_self.obj, F0, F1)
        IN  /\ g_rec.some = inner.some
            /\ g_rec.some =>
                 /\ g_rec.t = inner.t /\ g_rec.normal = inner.normal
                 /\ g_rec.front_face = inner.front_face
                 /\ g_rec.uv = inner.uv /\ g_rec.material = inner.material
                 /\ g_rec.point = VAdd(inner.point, g_self.offset)
                 /\ g_rec.point = at(g_ray, g_rec.t)
            /\ g_box.some = inner_box.some
            /\ g_box.some =>
                 /\ g_box.minimum = VAdd(inner_box.minimum, g_self.offset)
                 /\ g_box.maximum = VAdd(inner_box.maximum, g_self.offset)

\* A moved sphere is hit at a point that is not the inner hit's.
C17_Witness ==
    /\ g_pc = "done" /\ g_self.kind = "Translation" /\ g_rec.some
    /\ g_self.obj.kind = "Sphere" /\ g_box.some
    /\ g_rec.point # VSub(g_rec.point, g_self.offset)

\* C18 as claimed: for a density above 0 every hit of a ConstantMedium has
\* max(t_min, 0, t_enter) <= t <= min(t_max, t_exit) and the isotropic phase
\* material; and there is no hit when the ray crosses the boundary fewer
\* than twice, when the clamped interval is empty, or when the sampled free
\* path is longer than the clamped interval.
C18_Original ==
    (g_pc = "done" /\ g_self.kind = "ConstantMedium") =>
        LET ts == crossings(g_self.boundary, g_ray)
            free_path == FMul(g_self.neg_inv_density, g_ln)
        IN  IF Cardinality(ts) < 2 THEN ~g_rec.some
            ELSE LET t1 == FMax(FMax(g_t_min, F0), least(ts))
                     t2 == FMin(g_t_max, greatest(ts))
                 IN  /\ g_rec.some =>
                          /\ FLe(t1, g_rec.t) /\ FLe(g_rec.t, t2)
                          /\ g_rec.material.kind = "Isotropic"
                     /\ (FGe(t1, t2) \/ FGt(free_path, FSub(t2, t1)))
                           => ~g_rec.some

(***************************************************************************)
(* Claims about the BVH                                                    *)
(***************************************************************************)
\* C11 as claimed: for a list of primitives that all have boxes, any ray and
\* any [t_min, t_max], BVHNode.hit on the tree built from the list returns
\* a hit iff HittableList.hit on the list does, with the same t; and the
\* box test of the tree rejects no ray that a leaf is hit by in the interval.
C11_Original ==
    (bvh_pc = "done" /\ g_pc = "done") =>
        /\ g_rec.some
             = hit(HittableList(bvh_list), g_ray, g_t_min, g_t_max).some
        /\ g_rec.some =>
             g_rec.t = hit(HittableList(bvh_list), g_ray, g_t_min, g_t_max).t
        /\ \A i \in 1..Len(bvh_list) :
              hit(bvh_list[i], g_ray, g_t_min, g_t_max).some
                 => aabb_hit(bvh_ret.bbox, g_ray, g_t_min, g_t_max)

\* C12 as claimed: BVHNode::new on an empty list ends in a panic: it returns
\* no node and makes no nested call without end.
C12_Original ==
    (bvh_list = <<>>) =>
        /\ bvh_pc \in {"build", "panic"}
        /\ \A i \in 2..Len(bvh_stack) : bvh_stack[i].objects # <<>>

\* Every leaf below a node, or the primitive itself, has a bounding box.
RECURSIVE all_boxed(_)
all_boxed(node) ==
    CASE node.kind = "BVHNode" -> all_boxed(node.left) /\ all_boxed(node.right)
      [] node.kind = "absent"  -> TRUE
      [] OTHER                 -> bounding_box(node, F0, F1).some

\* C13: BVHNode::new on a non-empty list with a primitive whose bounding_box
\* is None never returns and never exhausts the stack: while it runs a step
\* is at hand, and it ends in a panic, whatever the size of the list and
\* the axes drawn; and no node is ever made above a primitive without a box.
C13_UnboxedPanics ==
    /\ (bvh_list # <<>> /\ \E i \in 1..Len(bvh_list) :
                              ~bounding_box(bvh_list[i], F0, F1).some) =>
          /\ bvh_pc \in {"build", "panic"}
          /\ bvh_pc = "build" => top.st \in {"enter", "join"}
    /\ all_boxed(bvh_ret)
    /\ \A i \in 1..Len(bvh_stack) :
          /\ bvh_stack[i].left.kind = "BVHNode" => all_boxed(bvh_stack[i].left)
          /\ bvh_stack[i].right.kind = "BVHNode"
                => all_boxed(bvh_stack[i].right)

\* The sort of a list of three panics on the object without a box that
\* follows two spheres.
C13_Witness ==
    /\ bvh_pc = "panic" /\ Len(bvh_list) = MaxObjects
    /\ bounding_box(bvh_list[1], F0, F1).some
    /\ bounding_box(bvh_list[2], F0, F1).some
    /\ ~bounding_box(bvh_list[MaxObjects], F0, F1).some

(***************************************************************************)
(* Claims about scene construction                                         *)
(***************************************************************************)
\* C14: for every scene name outside the eight that select_scene names, the
\* scene selected has the world primitives, the empty lights and the
\* background of the scene for "2sp", and the camera selected is the camera
\* for "2sp".
C14_UnknownNameIsTwoSpheres ==
    (b_scene # Absent /\ b_name \notin Known) =>
        /\ b_scene.world = select_scene("2sp", b_file).world
        /\ b_scene.lights = select_scene("2sp", b_file).lights
        /\ b_scene.lights = HittableList(<<>>)
        /\ b_scene.background = select_scene("2sp", b_file).background
        /\ b_camera = select_camera(AspectRatio, "2sp")

\* A scene was selected for the misspelt name "cornel".
C14_Witness ==
    /\ b_name = "cornel" /\ b_scene # Absent /\ b_camera # Absent
    /\ b_scene.label = "cornel"

failed(file) == ~file.exists \/ file.format = "garbage"

\* C19: when the asset is missing or cannot be decoded, ImageTexture::new
\* still returns a texture, one without an image; the earth scene is still
\* made, with its sphere carrying that texture; and every lookup of the
\* texture gives (0, 1, 1).
C19_FailedLoadIsCyan ==
    failed(b_file) =>
        /\ b_texture # Absent =>
              b_texture.kind = "ImageTexture" /\ ~b_texture.img.some
        /\ b_value # Absent => b_value = <<F0, F1, F1>>
        /\ (b_scene # Absent /\ b_name = "earth") =>
              /\ Len(b_scene.world.objects) = 2
              /\ b_scene.world.objects[1].kind = "Sphere"
              /\ b_scene.world.objects[1].material.color.kind = "ImageTexture"
              /\ ~b_scene.world.objects[1].material.color.img.some
              /\ \A uv \in UVs :
                    image_value(b_scene.world.objects[1].material.color, uv)
                        = <<F0, F1, F1>>

\* The file is there but is not an image, the earth scene was made, and a
\* lookup outside the unit square was answered.
C19_Witness ==
    /\ b_file.exists /\ b_file.format = "garbage"
    /\ b_name = "earth" /\ b_scene # Absent
    /\ b_uv = <<Fin(-1, 1), Fin(2, 1)>> /\ b_value = <<F0, F1, F1>>

\* C20 as claimed: the fuzz stored by Metal::new lies in [0, 1].
C20_Original ==
    b_metal # Absent => FLe(F0, b_metal.fuzz) /\ FLe(b_metal.fuzz, F1)

(***************************************************************************)
(* Claims about the noise                                                  *)
(***************************************************************************)
\* C21 as claimed: turb with the default depth is the sum over i = 0..6 of
\* (1/2)^i times the absolute value of noise(2^i * p).
RECURSIVE sum_of_abs(_)
sum_of_abs(obs) ==
    IF obs = <<>> THEN F0
    ELSE FAdd(sum_of_abs(SubSeq(obs, 1, Len(obs) - 1)),
              FMul(Fin(1, 2 ^ (Len(obs) - 1)), FAbs(obs[Len(obs)].noise)))

C21_Original ==
    (n_pc = "done" /\ ~n_depth.some) =>
        /\ Len(n_obs) = 7
        /\ \A i \in 1..7 : n_obs[i].p = VScale(Fin(2 ^ (i - 1), 1), n_p)
        /\ n_turb = sum_of_abs(n_obs)

(***************************************************************************)
(* Claims about the bases                                                  *)
(***************************************************************************)
orthonormal(u, v, w) ==
    /\ norm_squared(u) = F1 /\ norm_squared(v) = F1 /\ norm_squared(w) = F1
    /\ dot(u, v) = F0 /\ dot(v, w) = F0 /\ dot(u, w) = F0

\* C22 as claimed: for every unit vector w the columns (u, v, w) that
\* ONB::build_from_w yields are pairwise orthogonal unit vectors, and the
\* direction that the cosine PDF generates has unit length.
C22_Original ==
    /\ o_pc # "idle" => orthonormal(o_uvw[1], o_uvw[2], o_uvw[3])
    /\ o_pc = "generated" =>
          norm_squared(o_coords) = F1 /\ norm_squared(o_dir) = F1

\* C23 as claimed: when v_up is not parallel to direction, the u, v and w
\* of Camera::new are pairwise orthogonal unit vectors, and horizontal and
\* vertical have the lengths focus * viewport_w and focus * viewport_h.
C23_Original ==
    (c_camera # Absent /\ cross(c_camera.vup, c_direction) # zeros) =>
        /\ orthonormal(c_camera.u, c_camera.v, c_camera.w)
        /\ \E viewport_h \in {FMul(Fin(2, 1), tan_half(c_camera.vfov))} :
              /\ norm_squared(c_camera.vertical)
                   = FMul(FMul(c_camera.focus_dist, viewport_h),
                          FMul(c_camera.focus_dist, viewport_h))
              /\ norm_squared(c_camera.horizontal)
                   = FMul(FMul(FMul(c_camera.focus_dist, viewport_h),
                               c_camera.aspect_ratio),
                          FMul(FMul(c_camera.focus_dist, viewport_h),
                               c_camera.aspect_ratio))

(***************************************************************************)
(* Claims about the tree of BVHNode::new                                   *)
(***************************************************************************)
RECURSIVE leaves(_)
leaves(node) ==
    IF node.kind = "BVHNode" THEN leaves(node.left) \cup leaves(node.right)
    ELSE {node}

elements(objects) == {objects[i] : i \in 1..Len(objects)}

\* box a lies within box b
within(a, b) ==
    \A i \in 1..3 : FLe(b.minimum[i], a.minimum[i])
                    /\ FLe(a.maximum[i], b.maximum[i])

RECURSIVE encloses_leaves(_)
encloses_leaves(node) ==
    node.kind = "BVHNode" =>
        /\ \A leaf \in leaves(node) :
              within(bounding_box(leaf, F0, F1), node.bbox)
        /\ encloses_leaves(node.left) /\ encloses_leaves(node.right)

\* The steps that BVHNode::new takes on n objects, and those that the
\* activations on the stack have yet to take.
RECURSIVE steps(_)
steps(n) ==
    IF n <= 2 THEN 2 ELSE 2 + steps(n \div 2) + steps(n - n \div 2)

steps_left(activation) ==
    CASE activation.st = "enter" -> steps(Len(activation.objects))
      [] activation.st = "left" ->
           1 + steps(Len(activation.objects) - Len(activation.objects) \div 2)
      [] OTHER -> 1

RECURSIVE steps_ahead(_)
steps_ahead(stack) ==
    IF stack = <<>> THEN 0
    ELSE steps_left(stack[Len(stack)])
         + steps_ahead(SubSeq(stack, 1, Len(stack) - 1))

boxed_list ==
    /\ bvh_list # <<>>
    /\ \A i \in 1..Len(bvh_list) : bounding_box(bvh_list[i], F0, F1).some

tree_of_list ==
    boxed_list =>
        /\ bvh_pc \in {"build", "done"}
        /\ bvh_pc = "build" =>
              /\ top.st \in {"enter", "join"}
              /\ steps_ahead(bvh_stack) > 0
              /\ steps_ahead(bvh_stack) <= steps(Len(bvh_list))
        /\ \A i \in 1..Len(bvh_stack) :
              \E n \in {Len(bvh_stack[i].objects)} :
                 /\ n >= 1
                 /\ (bvh_stack[i].st \in {"left", "right"}) =>
                       /\ n >= 3 /\ i < Len(bvh_stack)
                       /\ bvh_stack[i].objects
                            = sort_by(bvh_stack[i].objects, 0)
                          \/ bvh_stack[i].objects
                               = sort_by(bvh_stack[i].objects, 1)
                          \/ bvh_stack[i].objects
                               = sort_by(bvh_stack[i].objects, 2)
                 /\ bvh_stack[i].st = "left" =>
                       elements(bvh_stack[i + 1].objects)
                         = elements(SubSeq(bvh_stack[i].objects, 1, n \div 2))
                       /\ Len(bvh_stack[i + 1].objects) = n \div 2
                 /\ bvh_stack[i].st = "right" =>
                       elements(bvh_stack[i + 1].objects)
                         = elements(SubSeq(bvh_stack[i].objects, n \div 2 + 1, n))
                       /\ Len(bvh_stack[i + 1].objects) = n - n \div 2
                 /\ (n >= 3 /\ bvh_stack[i].st \in {"right", "join"}) =>
                       /\ leaves(bvh_stack[i].left)
                            = elements(SubSeq(bvh_stack[i].objects, 1, n \div 2))
                       /\ encloses_leaves(bvh_stack[i].left)
                 /\ (n >= 3 /\ bvh_stack[i].st = "join") =>
                       /\ leaves(bvh_stack[i].right)
                            = elements(SubSeq(bvh_stack[i].objects,
                                              n \div 2 + 1, n))
                       /\ encloses_leaves(bvh_stack[i].right)
        /\ bvh_pc = "done" =>
              /\ bvh_ret.kind = "BVHNode"
              /\ leaves(bvh_ret) = elements(bvh_list)
              /\ encloses_leaves(bvh_ret)
              /\ Len(bvh_list) = 1 =>
                    bvh_ret.left = bvh_list[1] /\ bvh_ret.right = bvh_list[1]

\* C24: on a non-empty list of primitives that all have boxes, BVHNode::new
\* neither panics nor exhausts the stack, always has a step at hand until
\* it returns, and every step brings the return one step nearer; a list of
\* n >= 3 is sorted and split into its first floor(n/2) objects, from which
\* the left child is built, and the n - floor(n/2) others, from which the
\* right child is built; the leaves of the tree returned are the primitives
\* of the list and no others; a list of one gives a node with that
\* primitive as both children; and the box of every node encloses the
\* boxes of all leaves beneath it.
C24_TreeOfList ==
    /\ []tree_of_list
    /\ [][boxed_list => steps_ahead(bvh_stack') = steps_ahead(bvh_stack) - 1]_<<bvh_pc, bvh_stack>>

\* A tree was returned for three different spheres given out of order.
C24_Witness ==
    /\ bvh_pc = "done" /\ Len(bvh_list) = MaxObjects
    /\ Cardinality(elements(bvh_list)) = 3
    /\ bvh_ret.kind = "BVHNode"
    /\ bvh_ret.right.kind = "BVHNode"
    /\ \E axis \in 0..2 : bvh_list # sort_by(bvh_list, axis)

(***************************************************************************)
(* Claims about the boxes                                                  *)
(***************************************************************************)
\* The parameters at which the ray is between the two planes of axis i of
\* the box, as an interval <<from, to>>.
slab(self, ray, i) ==
    IF ray.direction[i] = F0
    THEN IF FLe(self.minimum[i], ray.origin[i])
            /\ FLe(ray.origin[i], self.maximum[i])
         THEN <<NegInf, PosInf>> ELSE <<PosInf, NegInf>>
    ELSE <<FMin(FDiv(FSub(self.minimum[i], ray.origin[i]), ray.direction[i]),
                FDiv(FSub(self.maximum[i], ray.origin[i]), ray.direction[i])),
           FMax(FDiv(FSub(self.minimum[i], ray.origin[i]), ray.direction[i]),
                FDiv(FSub(self.maximum[i], ray.origin[i]), ray.direction[i]))>>

\* The parameters of the interval at which the ray is inside the box.
inside(self, ray, t_min, t_max) ==
    <<FMax(FMax(FMax(t_min, slab(self, ray, 1)[1]), slab(self, ray, 2)[1]),
           slab(self, ray, 3)[1]),
      FMin(FMin(FMin(t_max, slab(self, ray, 1)[2]), slab(self, ray, 2)[2]),
           slab(self, ray, 3)[2])>>

\* C25 as claimed: AxisAlignedBoundingBox.hit on a box whose minimum is not
\* above its maximum is true when some t inside (t_min, t_max) places
\* ray.at(t) inside the box on all three axes at once, and only then
\* (parameters at the ends of the intervals are left open either way).
C25_Original ==
    (x_pc = "hit" /\ \A i \in 1..3 :
                        FLe(x_boxes[1].minimum[i], x_boxes[1].maximum[i])) =>
        \E t \in {inside(x_boxes[1], x_ray, x_t_min, x_t_max)} :
           /\ FLt(t[1], t[2]) => x_ret
           /\ x_ret => FLe(t[1], t[2])

\* C26: surrounding_box gives the same box for (a, b) and (b, a), for
\* ((a, b), c) and (a, (b, c)), and a for (a, a); with None on one side it
\* gives the other side; with two boxes it gives the box whose minimum is
\* on every axis the lesser of the minima and whose maximum the greater of
\* the maxima, which contains both; and HittableList::bounding_box is None
\* exactly when the box of every object of the list is None.
C26_SurroundingBoxLaws ==
    /\ x_pc = "surrounded" =>
          /\ x_sum.ab = x_sum.ba
          /\ x_sum.ab_c = x_sum.a_bc
          /\ x_sum.aa = x_boxes[1]
          /\ ~x_boxes[1].some => x_sum.ab = x_boxes[2]
          /\ ~x_boxes[2].some => x_sum.ab = x_boxes[1]
          /\ (x_boxes[1].some /\ x_boxes[2].some) =>
                /\ x_sum.ab.some
                /\ \A i \in 1..3 :
                      /\ x_sum.ab.minimum[i] \in {x_boxes[1].minimum[i],
                                                  x_boxes[2].minimum[i]}
                      /\ x_sum.ab.maximum[i] \in {x_boxes[1].maximum[i],
                                                  x_boxes[2].maximum[i]}
                /\ within(x_boxes[1], x_sum.ab)
                /\ within(x_boxes[2], x_sum.ab)
    /\ x_pc = "boxed" =>
          (~x_ret.some <=> \A i \in 1..Len(x_list) :
                              ~bounding_box(x_list[i], F0, F1).some)

\* surrounding_box was called on three different boxes, the first two of
\* which do not contain one another, and a list with an object without a
\* box among objects with boxes got a box.
C26_Witness ==
    \/ /\ x_pc = "surrounded"
       /\ x_boxes[1].some /\ x_boxes[2].some /\ x_boxes[3].some
       /\ Cardinality({x_boxes[1], x_boxes[2], x_boxes[3]}) = 3
       /\ x_sum.ab \notin {x_boxes[1], x_boxes[2]}
       /\ x_sum.ab_c # x_sum.ab
    \/ /\ x_pc = "boxed" /\ Len(x_list) = MaxList /\ x_ret.some
       /\ ~bounding_box(x_list[1], F0, F1).some

(***************************************************************************)
(* Claims about the rays of a path                                         *)
(***************************************************************************)
\* C27: every ray of a path has the time of the primary ray the camera drew:
\* the ray each scattering hands to the next call of ray_color, and the ray
\* Translation and RotationY hand to the object they wrap.
C27_TimeAlongPath ==
    p_pc # "idle" =>
        /\ p_ray.time = p_primary.time
        /\ p_inner.time = p_primary.time

\* A path of two scatterings, one of them in a dielectric or a medium, drawn
\* with the shutter half open, whose ray a wrapped object sees moved and
\* rotated.
C27_Witness ==
    /\ p_pc = "rotated" /\ p_len >= 2 /\ p_primary.time = Fin(1, 2)
    /\ p_via[1] \in {"Dielectric", "Isotropic"}
    /\ p_inner.origin # p_ray.origin /\ p_inner.direction # p_ray.direction

(***************************************************************************)
(* Claims about the frame buffer draw accepts                              *)
(***************************************************************************)
\* C28 as claimed: a frame buffer whose length is not exactly 4 * width *
\* height fails the assertion of draw before any pixel is written: the rows
\* are never iterated, no byte is written and draw does not return.
C28_Original ==
    Len(frame) # 4 * width * height =>
        /\ pc # "drawing"
        /\ returned # "rendered"
        /\ \A i \in 1..Len(frame) : writes[i] = 0

(***************************************************************************)
(* Claims about the windowed event loop                                    *)
(***************************************************************************)
\* C29: a call of Gui::updated returns true exactly when a field of the Gui
\* differs from its value at the previous call (at construction, for the
\* first call), and leaves in pre a snapshot of the fields as they are at
\* the call, none of which it changes; so the second of two calls with no
\* change in between returns false.
C29_UpdatedComparesWithLastCall ==
    [][l_pc = "drawn" /\ l_pc' = "updated" =>
          /\ l_ret' = (fields(l_gui) # l_last)
          /\ l_gui'.pre = Some(fields(l_gui))
          /\ fields(l_gui') = fields(l_gui)]_vars

\* A call that returns false after the settings were changed and an earlier
\* call returned true for the change.
C29_Witness ==
    /\ l_pc = "updated" /\ ~l_ret
    /\ l_gui.sample_count = 1 /\ l_gui.scene = "TwoSp"
    /\ l_gui.pre = Some(fields(l_gui))

\* C30: after a change of the settings of the Gui a draw with dirty = true
\* eventually runs with multisample, max_depth, scale and the label of the
\* scene equal to the Gui's sample_count, max_depth, scale and scene at the
\* time of the draw; and if from some point on the Gui no longer changes,
\* then from some point on dirty stays false, so every later draw returns
\* at once.
C30_GuiReachesRenderer ==
    /\ (l_pc = "prepared" /\ l_changed = "settings")
          ~> (/\ l_pc = "drawn" /\ l_drawn.dirty
              /\ l_drawn.settings = gui_settings(l_gui))
    /\ <>[](l_changed = "none") => <>[](~l_renderer.dirty)

\* A dirty draw that runs with settings all of which differ from those the
\* Gui was constructed with.
C30_Witness ==
    /\ l_pc = "drawn" /\ l_drawn.dirty
    /\ l_drawn.settings = gui_settings(l_gui)
    /\ l_drawn.settings = [sample_count |-> 1, max_depth |-> 2, scale |-> 5,
                           scene |-> "2sp"]

=============================================================================
